---------------------------- MODULE Spec2Model ----------------------------
(***************************************************************************)
(* Model of mlfab's one-to-many monotonic attention operator               *)
(* (mlfab/nn/architectures/monotonic_attention.py).                        *)
(*                                                                         *)
(* Numbers.  The operator works on floating point numbers in log-space.    *)
(* Two kinds of number appear in the code and both are modelled exactly:   *)
(*   - a plain number (gradients, the result of torch.exp) is a reduced    *)
(*     fraction <<n, d>> with d > 0;                                       *)
(*   - a log-space number (logits, phis, probs) is a record [o, q] that    *)
(*     denotes  o * MIN_LOG_PROB + log(q)  with q a positive fraction, so  *)
(*     adding two of them multiplies the q and adds the o.                 *)
(* torch.exp of a number with o >= 1 is exp(-1e4 + log q), which is 0 in   *)
(* IEEE arithmetic (float32 and float64 underflow); this is the one        *)
(* floating point effect the model keeps, rounding is left out.            *)
(***************************************************************************)
EXTENDS Integers, Sequences, FiniteSets, TLC

VARIABLES
    pc,           \* position of the differentiable operator
    logits,       \* the caller's logits tensor, (bsz, tsz_src, tsz_tgt)
    padded,       \* forward_pass_cpu_: `logits` after F.pad
    phis,         \* forward_pass_cpu_: the phi table
    i,            \* loop variable of the forward / backward recurrence
    nsteps,       \* number of loop bodies executed by the running pass
    probs,        \* the returned marginal log-probabilities
    saved,        \* ctx.saved_tensors of MonotonicAttentionCpu
    grad_output,  \* the upstream gradient handed to backward
    grad_phis,    \* backward_pass_cpu_: working copy of the upstream gradient
    grad_logits,  \* backward_pass_cpu_: gradient accumulator
    extra_grad,   \* backward_pass_cpu_: direct term of the commit factor
    result,       \* the gradient returned by backward
    threads,      \* dispatch: per thread, its position and operands
    cache,        \* dispatch: the lru_cache of get_monotonic_attention_fn
    triton,       \* dispatch: what supports_triton() answers in this process
    resolutions,  \* dispatch: number of times each kind's body has run
    calls,        \* invocations: per call of the operator, its position and tensors
    ctx,          \* invocations: the saved tensors of each autograd context
    layer,        \* layer: the MonotonicAttention module, once constructed
    lcall,        \* layer: the call made on the module and what came of it
    long,         \* long sequences: one column of the phi table, by magnitude
    sep,          \* optimizers: a call of separate_decayable_params
    lion,         \* optimizers: a Lion optimizer and its steps
    store         \* experiments: the config file and a call of save_config

dpVars == <<pc, logits, padded, phis, i, nsteps, probs, saved, grad_output,
            grad_phis, grad_logits, extra_grad, result>>
dispatchVars == <<threads, cache, triton, resolutions>>
callVars == <<calls, ctx>>
layerVars == <<layer, lcall>>
restVars == <<long, sep, lion, store>>
coreVars == <<dpVars, dispatchVars, callVars, layerVars>>
vars == <<pc, logits, padded, phis, i, nsteps, probs, saved, grad_output,
          grad_phis, grad_logits, extra_grad, result,
          threads, cache, triton, resolutions, calls, ctx, layer, lcall,
          long, sep, lion, store>>

---------------------------------------------------------------------------
(* Bounds of the model. *)
MaxBatch == 2
MaxSrc == 3
MaxTgt == 3

---------------------------------------------------------------------------
(* Exact fractions. *)
RECURSIVE Gcd(_, _)
Gcd(a, b) == IF b = 0 THEN a ELSE Gcd(b, a % b)

Abs(n) == IF n < 0 THEN -n ELSE n

Rat(n, d) == LET g == Gcd(Abs(n), d) IN <<n \div g, d \div g>>

Zero == <<0, 1>>
One == <<1, 1>>
Inf == <<1, 0>>

RNeg(a) == <<-a[1], a[2]>>

RAdd(a, b) ==
    LET g == Gcd(a[2], b[2])
    IN  Rat(a[1] * (b[2] \div g) + b[1] * (a[2] \div g), (a[2] \div g) * b[2])

RSub(a, b) == RAdd(a, RNeg(b))

RMul(a, b) ==
    LET g1 == Gcd(Abs(a[1]), b[2])
        g2 == Gcd(Abs(b[1]), a[2])
    IN  IF a[1] = 0 \/ b[1] = 0 THEN Zero
        ELSE <<(a[1] \div g1) * (b[1] \div g2), (a[2] \div g2) * (b[2] \div g1)>>

RInv(a) == IF a[1] > 0 THEN <<a[2], a[1]>> ELSE <<-a[2], -a[1]>>

RDiv(a, b) == RMul(a, RInv(b))

RLe(a, b) == RSub(a, b)[1] <= 0

RLt(a, b) == RSub(a, b)[1] < 0

---------------------------------------------------------------------------
(* Log-space numbers and the torch primitives the operator uses on them. *)
LogNum(o, q) == [o |-> o, q |-> q]

\* the float 0.0 (F.pad's value, phis[..., 0, 1])
LZero == LogNum(0, One)

MIN_LOG_PROB == LogNum(1, One)

\* x + y and x - y on log-space numbers
LAdd(x, y) == LogNum(x.o + y.o, RMul(x.q, y.q))

LSub(x, y) == LogNum(x.o - y.o, RDiv(x.q, y.q))

\* -x
LNeg(x) == LogNum(-x.o, RInv(x.q))

\* torch.exp: exp(o * -1e4 + log q) underflows to 0 for o >= 1
Exp(x) == IF x.o = 0 THEN x.q ELSE IF x.o > 0 THEN Zero ELSE Inf

\* torch.log1p of a plain number r >= 0
Log1p(r) == LogNum(0, RAdd(One, r))

\* faulty variant: the larger term only (a maximum instead of a sum)
_logaddexp_Max(a, b) ==
    IF a.o = b.o THEN (IF RLe(a.q, b.q) THEN b ELSE a)
    ELSE IF a.o < b.o THEN a ELSE b

\* torch.logsumexp over a stack of two: the maximum is subtracted, so a term
\* that is exp(-1e4) below the other adds exactly 0
_logaddexp(a, b) ==
    IF a.o = b.o THEN LogNum(a.o, RAdd(a.q, b.q))
    ELSE IF a.o < b.o THEN a ELSE b

_pos_log_prob(x) == LNeg(Log1p(Exp(LNeg(x))))

\* faulty variant: the leading minus is missing
_neg_log_prob_NoMinus(x) == Log1p(Exp(x))

_neg_log_prob(x) == LNeg(Log1p(Exp(x)))

_d_pos_log_prob(x) == RDiv(One, RAdd(One, Exp(x)))

_d_neg_log_prob(x) == RDiv(RNeg(One), RAdd(One, Exp(LNeg(x))))

---------------------------------------------------------------------------
(* Tensors: t[b][r][c], every index 0-based as in the source. *)
NoTensor == <<>>

Size(f) == Cardinality(DOMAIN f)

Bsz(t) == Size(t)
Rows(t) == IF Size(t) = 0 THEN 0 ELSE Size(t[0])
Cols(t) == IF Rows(t) = 0 THEN 0 ELSE Size(t[0][0])
Shape(t) == <<Bsz(t), Rows(t), Cols(t)>>

Full(B, S, T, v) == [b \in 0..(B - 1) |-> [r \in 0..(S - 1) |-> [c \in 0..(T - 1) |-> v]]]

\* torch.empty_like: same shape, contents are whatever the allocator left
EmptyLike(t, g) == Full(Bsz(t), Rows(t), Cols(t), g)

\* F.pad(t, (1, 0), value=v): one column of v in front of the last axis
Pad(t, v) ==
    [b \in DOMAIN t |-> [r \in DOMAIN t[b] |->
        [c \in 0..Size(t[b][r]) |-> IF c = 0 THEN v ELSE t[b][r][c - 1]]]]

\* faulty variant: the padding column is kept
DropFirstCol_Keep(t) == t

\* t[..., 1:]
DropFirstCol(t) ==
    [b \in DOMAIN t |-> [r \in DOMAIN t[b] |->
        [c \in 0..(Size(t[b][r]) - 2) |-> t[b][r][c + 1]]]]


\* elementwise map over a tensor, and elementwise combination of two tensors
\* of the same shape
TMapNeg(t) == [b \in DOMAIN t |-> [r \in DOMAIN t[b] |-> [c \in DOMAIN t[b][r] |-> _neg_log_prob(t[b][r][c])]]]

TLAdd(t, u) == [b \in DOMAIN t |-> [r \in DOMAIN t[b] |-> [c \in DOMAIN t[b][r] |-> LAdd(t[b][r][c], u[b][r][c])]]]

TRAdd(t, u) == [b \in DOMAIN t |-> [r \in DOMAIN t[b] |-> [c \in DOMAIN t[b][r] |-> RAdd(t[b][r][c], u[b][r][c])]]]

---------------------------------------------------------------------------
(* The inputs: logits and upstream gradients drawn from bounded families. *)

\* logits with sigmoid 1/16, 1/4, 1/2, 3/4, 15/16 (a logit x is held as
\* the log-space number with q = exp(x))
LogitValues ==
    << LogNum(0, <<1, 15>>), LogNum(0, <<1, 3>>), LogNum(0, <<1, 1>>),
       LogNum(0, <<3, 1>>), LogNum(0, <<15, 1>>) >>

GradValues == << <<0, 1>>, <<1, 1>>, <<-1, 1>>, <<2, 1>> >>

\* how the logit changes from one row, and one column, to the next
Slopes == {0, 1, 2}

\* the grid of the end-to-end scenario: batch 1, src_len 4, tgt_len 2, zeros
ScenarioLogits == {[b \in 0..0 |-> [r \in 0..3 |-> [c \in 0..1 |-> LogNum(0, <<1, 1>>)]]]}

\* what an uninitialised buffer may hold
GarbageLog == {LogNum(0, <<7, 1>>), LogNum(1, <<1, 5>>)}
GarbageNum == {<<5, 1>>, <<-3, 1>>}

InputLogits(B, S, T, k0, k1, k2) ==
    [b \in 0..(B - 1) |-> [r \in 0..(S - 1) |-> [c \in 0..(T - 1) |->
        LogitValues[1 + ((k0 + b + k1 * r + k2 * c) % Len(LogitValues))]]]]

InputGrad(B, S, T, h) ==
    [b \in 0..(B - 1) |-> [r \in 0..(S - 1) |-> [c \in 0..(T - 1) |->
        GradValues[1 + ((h + b + r + 2 * c) % Len(GradValues))]]]]

---------------------------------------------------------------------------
(* forward_pass_cpu_ *)

\* faulty variant: the start cell is put in the padding column, [0, 0]
InitPhis_StartAtPad(pl, g) ==
    LET e == EmptyLike(pl, g)
    IN  [b \in DOMAIN e |-> [r \in DOMAIN e[b] |-> [c \in DOMAIN e[b][r] |->
            IF r = 0 /\ c = 0 THEN LZero
            ELSE IF r = 0 \/ c = 0 THEN MIN_LOG_PROB ELSE e[b][r][c]]]]

\* lines 42-45: phis = empty_like(logits); column 0, then row 0, then [0, 1]
InitPhis(pl, g) ==
    LET e  == EmptyLike(pl, g)
        s1 == [b \in DOMAIN e |-> [r \in DOMAIN e[b] |-> [c \in DOMAIN e[b][r] |->
                  IF c = 0 THEN MIN_LOG_PROB ELSE e[b][r][c]]]]
        s2 == [b \in DOMAIN e |-> [r \in DOMAIN e[b] |-> [c \in DOMAIN e[b][r] |->
                  IF r = 0 THEN MIN_LOG_PROB ELSE s1[b][r][c]]]]
    IN  [b \in DOMAIN e |-> [r \in DOMAIN e[b] |-> [c \in DOMAIN e[b][r] |->
            IF r = 0 /\ c = 1 THEN LZero ELSE s2[b][r][c]]]]

\* faulty variant: the advance branch reads column c instead of column c - 1
StepPhis_SameColumn(ph, pl, r) ==
    [b \in DOMAIN ph |-> [ph[b] EXCEPT ![r] =
        [c \in DOMAIN ph[b][r] |->
            IF c = 0 THEN ph[b][r][c]
            ELSE _logaddexp(
                     LAdd(ph[b][r - 1][c], _pos_log_prob(pl[b][r - 1][c])),
                     LAdd(ph[b][r - 1][c], _neg_log_prob(pl[b][r - 1][c])))]]]

\* faulty variant: the whole row is assigned, the padding column from its stay branch
StepPhis_AllColumns(ph, pl, r) ==
    [b \in DOMAIN ph |-> [ph[b] EXCEPT ![r] =
        [c \in DOMAIN ph[b][r] |->
            IF c = 0 THEN LAdd(ph[b][r - 1][c], _pos_log_prob(pl[b][r - 1][c]))
            ELSE _logaddexp(
                     LAdd(ph[b][r - 1][c], _pos_log_prob(pl[b][r - 1][c])),
                     LAdd(ph[b][r - 1][c - 1], _neg_log_prob(pl[b][r - 1][c - 1])))]]]

\* faulty variant: the two branch weights are swapped
StepPhis_SwappedBranches(ph, pl, r) ==
    [b \in DOMAIN ph |-> [ph[b] EXCEPT ![r] =
        [c \in DOMAIN ph[b][r] |->
            IF c = 0 THEN ph[b][r][c]
            ELSE _logaddexp(
                     LAdd(ph[b][r - 1][c], _neg_log_prob(pl[b][r - 1][c])),
                     LAdd(ph[b][r - 1][c - 1], _pos_log_prob(pl[b][r - 1][c - 1])))]]]

\* lines 47-50: the body of the loop for row r
StepPhis(ph, pl, r) ==
    [b \in DOMAIN ph |-> [ph[b] EXCEPT ![r] =
        [c \in DOMAIN ph[b][r] |->
            IF c = 0 THEN ph[b][r][c]
            ELSE _logaddexp(
                     LAdd(ph[b][r - 1][c], _pos_log_prob(pl[b][r - 1][c])),
                     LAdd(ph[b][r - 1][c - 1], _neg_log_prob(pl[b][r - 1][c - 1])))]]]

\* line 46: for i in range(1, t_i)
RECURSIVE LoopPhis(_, _, _, _)
LoopPhis(ph, pl, r, t_i) ==
    IF r >= t_i THEN ph ELSE LoopPhis(StepPhis(ph, pl, r), pl, r + 1, t_i)

\* faulty variant: the padded logits are used without dropping their first column
ReturnProbs_Unsliced(ph, pl) ==
    [b \in DOMAIN ph |-> [r \in DOMAIN ph[b] |-> [c \in DOMAIN ph[b][r] |->
        LAdd(ph[b][r][c], _neg_log_prob(pl[b][r][c]))]]]

\* line 52: phis + _neg_log_prob(logits[..., 1:])
ReturnProbs(ph, pl) == TLAdd(ph, TMapNeg(DropFirstCol(pl)))

\* the whole function, as <<phis, probs>>
forward_pass_cpu_(lg, g) ==
    LET t_i == Rows(lg)
        pl  == Pad(lg, LZero)
        ph  == DropFirstCol(LoopPhis(InitPhis(pl, g), pl, 1, t_i))
    IN  <<ph, ReturnProbs(ph, pl)>>

---------------------------------------------------------------------------
(* The operator as a state machine: MonotonicAttentionCpu.forward runs       *)
(* forward_pass_cpu_ step by step.                                         *)

CallsIdle ==
    /\ calls = <<>>
    /\ ctx = <<>>

LayerIdle ==
    /\ layer = <<>>
    /\ lcall = <<>>

RestIdle ==
    /\ long = <<>>
    /\ sep = <<>>
    /\ lion = <<>>
    /\ store = <<>>

DispatchIdle ==
    /\ threads = <<>>
    /\ cache = <<>>
    /\ triton = FALSE
    /\ resolutions = <<>>

Init ==
    /\ pc = "start"
    /\ \/ \E B \in 1..MaxBatch, S \in 1..MaxSrc, T \in 1..MaxTgt :
          \E k0 \in 0..(Len(LogitValues) - 1), k1 \in Slopes, k2 \in Slopes :
              logits = InputLogits(B, S, T, k0, k1, k2)
       \/ logits \in ScenarioLogits
    /\ padded = NoTensor
    /\ phis = NoTensor
    /\ i = 0
    /\ nsteps = 0
    /\ probs = NoTensor
    /\ saved = <<>>
    /\ grad_output = NoTensor
    /\ grad_phis = NoTensor
    /\ grad_logits = NoTensor
    /\ extra_grad = NoTensor
    /\ result = NoTensor
    /\ DispatchIdle
    /\ CallsIdle
    /\ LayerIdle
    /\ RestIdle

\* lines 40-45
ForwardInit ==
    /\ pc = "start"
    /\ \E g \in GarbageLog :
        /\ padded' = Pad(logits, LZero)
        /\ phis' = InitPhis(padded', g)
    /\ i' = 1
    /\ nsteps' = 0
    /\ pc' = "fwd_loop"
    /\ UNCHANGED <<logits, probs, saved, grad_output, grad_phis, grad_logits,
                   extra_grad, result>>
    /\ UNCHANGED <<dispatchVars, callVars, layerVars, restVars>>

\* lines 46-50, one iteration
ForwardStep ==
    /\ pc = "fwd_loop"
    /\ i < Rows(logits)
    /\ phis' = StepPhis(phis, padded, i)
    /\ i' = i + 1
    /\ nsteps' = nsteps + 1
    /\ UNCHANGED <<pc, logits, padded, probs, saved, grad_output, grad_phis,
                   grad_logits, extra_grad, result>>
    /\ UNCHANGED <<dispatchVars, callVars, layerVars, restVars>>

\* lines 51-52, and lines 77-78 of MonotonicAttentionCpu.forward
ForwardReturn ==
    /\ pc = "fwd_loop"
    /\ i >= Rows(logits)
    /\ phis' = DropFirstCol(phis)
    /\ probs' = ReturnProbs(phis', padded)
    /\ saved' = <<logits, phis'>>
    /\ pc' = "fwd_done"
    /\ UNCHANGED <<logits, padded, i, nsteps, grad_output, grad_phis,
                   grad_logits, extra_grad, result>>
    /\ UNCHANGED <<dispatchVars, callVars, layerVars, restVars>>

---------------------------------------------------------------------------
(* backward_pass_cpu_ *)

\* faulty variant: line 58 is missing, the last source row is left as allocated
InitGradLogits_NoZero(gp, t_i, g) == EmptyLike(gp, g)

\* lines 57-58: grad_logits = empty_like(grad_phis); last source row = 0.0
InitGradLogits(gp, t_i, g) ==
    LET e == EmptyLike(gp, g)
    IN  [b \in DOMAIN e |-> [r \in DOMAIN e[b] |-> [c \in DOMAIN e[b][r] |->
            IF r = t_i - 1 THEN Zero ELSE e[b][r][c]]]]

\* line 59: extra_grad = _d_neg_log_prob(logits) * grad_phis
ExtraGrad(lg, gp) ==
    [b \in DOMAIN lg |-> [r \in DOMAIN lg[b] |-> [c \in DOMAIN lg[b][r] |->
        RMul(_d_neg_log_prob(lg[b][r][c]), gp[b][r][c])]]]

\* lines 61-63: the posteriors of the two branches into row r + 1
StayPosterior(lg, ph, b, r, c) ==
    Exp(LSub(LAdd(ph[b][r][c], _pos_log_prob(lg[b][r][c])), ph[b][r + 1][c]))

AdvancePosterior(lg, ph, b, r, c) ==
    Exp(LSub(LAdd(ph[b][r][c], _neg_log_prob(lg[b][r][c])), ph[b][r + 1][c + 1]))

\* lines 64-65: c over all columns, d over columns 0..T-2
BranchC(lg, ph, gp, b, r, c) == RMul(gp[b][r + 1][c], StayPosterior(lg, ph, b, r, c))

BranchD(lg, ph, gp, b, r, c) == RMul(gp[b][r + 1][c + 1], AdvancePosterior(lg, ph, b, r, c))

\* lines 66-67: row r of grad_logits
StepGradLogits(lg, ph, gp, gl, r) ==
    [b \in DOMAIN gl |-> [gl[b] EXCEPT ![r] =
        [c \in DOMAIN gl[b][r] |->
            LET first == RMul(BranchC(lg, ph, gp, b, r, c), _d_pos_log_prob(lg[b][r][c]))
            IN  IF c < Size(gl[b][r]) - 1
                THEN RAdd(first, RMul(BranchD(lg, ph, gp, b, r, c), _d_neg_log_prob(lg[b][r][c])))
                ELSE first]]]

\* faulty variant: line 69 is missing, the advance branch is not accumulated
StepGradPhis_NoAdvance(lg, ph, gp, r) ==
    [b \in DOMAIN gp |-> [gp[b] EXCEPT ![r] =
        [c \in DOMAIN gp[b][r] |-> RAdd(gp[b][r][c], BranchC(lg, ph, gp, b, r, c))]]]

\* lines 68-69: row r of grad_phis, accumulated in place
StepGradPhis(lg, ph, gp, r) ==
    [b \in DOMAIN gp |-> [gp[b] EXCEPT ![r] =
        [c \in DOMAIN gp[b][r] |->
            LET first == RAdd(gp[b][r][c], BranchC(lg, ph, gp, b, r, c))
            IN  IF c < Size(gp[b][r]) - 1
                THEN RAdd(first, BranchD(lg, ph, gp, b, r, c))
                ELSE first]]]

---------------------------------------------------------------------------
(* MonotonicAttentionCpu.backward runs backward_pass_cpu_ step by step on   *)
(* the saved tensors and a clone of the upstream gradient.                 *)

\* faulty variant: no clone, the working tensor is the caller's own
CallerView_Shared(go, gp) == gp

\* line 84: grad_phis.clone() gives backward_pass_cpu_ storage of its own, so
\* the caller's tensor go keeps its value when the working copy becomes gp
CallerView(go, gp) == go

\* lines 83-84 and 56-59
BackwardInit ==
    /\ pc = "fwd_done"
    /\ \E h \in 0..(Len(GradValues) - 1) :
        grad_output' = InputGrad(Bsz(probs), Rows(probs), Cols(probs), h)
    /\ grad_phis' = grad_output'
    /\ \E g \in GarbageNum :
        grad_logits' = InitGradLogits(grad_phis', Rows(saved[1]), g)
    /\ extra_grad' = ExtraGrad(saved[1], grad_phis')
    /\ i' = Rows(saved[1]) - 2
    /\ nsteps' = 0
    /\ pc' = "bwd_loop"
    /\ UNCHANGED <<logits, padded, phis, probs, saved, result>>
    /\ UNCHANGED <<dispatchVars, callVars, layerVars, restVars>>

\* lines 60-69, one iteration
BackwardStep ==
    /\ pc = "bwd_loop"
    /\ i >= 0
    /\ grad_logits' = StepGradLogits(saved[1], saved[2], grad_phis, grad_logits, i)
    /\ grad_phis' = StepGradPhis(saved[1], saved[2], grad_phis, i)
    /\ grad_output' = CallerView(grad_output, grad_phis')
    /\ i' = i - 1
    /\ nsteps' = nsteps + 1
    /\ UNCHANGED <<pc, logits, padded, phis, probs, saved, extra_grad, result>>
    /\ UNCHANGED <<dispatchVars, callVars, layerVars, restVars>>

\* line 70, and line 85 of MonotonicAttentionCpu.backward
BackwardReturn ==
    /\ pc = "bwd_loop"
    /\ i < 0
    /\ result' = TRAdd(grad_logits, extra_grad)
    /\ pc' = "bwd_done"
    /\ UNCHANGED <<logits, padded, phis, i, nsteps, probs, saved, grad_output,
                   grad_phis, grad_logits, extra_grad>>
    /\ UNCHANGED <<dispatchVars, callVars, layerVars, restVars>>

Next ==
    \/ ForwardInit
    \/ ForwardStep
    \/ ForwardReturn
    \/ BackwardInit
    \/ BackwardStep
    \/ BackwardReturn

Spec == Init /\ [][Next]_vars

---------------------------------------------------------------------------
(* Device dispatch: monotonic_attention looks its implementation up by the *)
(* device kind of the logits, through the lru_cache that wraps             *)
(* get_monotonic_attention_fn.  Several threads may call it; a cache miss  *)
(* runs the wrapped body outside any lock and stores the result after.     *)

Threads == {1, 2}

DeviceKinds == {"cpu", "cuda", "mps"}

MaxDeviceIndex == 1

\* a torch.device: its type and its index
Devices == {[type |-> k, index |-> n] : k \in DeviceKinds, n \in 0..MaxDeviceIndex}

NoFn == "none"

\* a thread that has not looked anything up yet holds no device
NoDevice == [type |-> "none", index |-> 0]

\* faulty variant: `and` in place of `or`
get_monotonic_attention_fn_And(device_type, supports_triton) ==
    IF device_type # "cuda" /\ ~supports_triton
    THEN "monotonic_attention_cpu"
    ELSE "monotonic_attention_gpu"

\* lines 130-135: the body of get_monotonic_attention_fn
get_monotonic_attention_fn(device_type, supports_triton) ==
    IF device_type # "cuda" \/ ~supports_triton
    THEN "monotonic_attention_cpu"
    ELSE "monotonic_attention_gpu"

DpIdle ==
    /\ pc = "off"
    /\ logits = NoTensor
    /\ padded = NoTensor
    /\ phis = NoTensor
    /\ i = 0
    /\ nsteps = 0
    /\ probs = NoTensor
    /\ saved = <<>>
    /\ grad_output = NoTensor
    /\ grad_phis = NoTensor
    /\ grad_logits = NoTensor
    /\ extra_grad = NoTensor
    /\ result = NoTensor

InitDispatch ==
    /\ DpIdle
    /\ CallsIdle
    /\ LayerIdle
    /\ RestIdle
    /\ threads = [t \in Threads |-> [pc |-> "idle", device |-> NoDevice, fn |-> NoFn]]
    /\ cache = [k \in DeviceKinds |-> NoFn]
    /\ triton \in BOOLEAN
    /\ resolutions = [k \in DeviceKinds |-> 0]

\* faulty variant: the device index takes part in the key, and only index 0
\* is ever found
CacheGet_IndexInKey(c, device) ==
    IF device.index = 0 THEN c[device.type] ELSE NoFn

\* line 148 and the cache lookup of line 128: the key is logits.device.type
CacheGet(c, device) == c[device.type]

\* line 148 and the cache lookup of line 128: a hit returns the cached
\* callable, a miss goes on to the body
Lookup(t) ==
    /\ threads[t].pc = "idle"
    /\ \E d \in Devices :
        threads' = [threads EXCEPT ![t] =
            IF CacheGet(cache, d) # NoFn
            THEN [pc |-> "idle", device |-> d, fn |-> CacheGet(cache, d)]
            ELSE [pc |-> "resolving", device |-> d, fn |-> NoFn]]
    /\ UNCHANGED <<cache, triton, resolutions>>
    /\ UNCHANGED <<dpVars, callVars, layerVars, restVars>>

\* lines 130-135 after a miss, then the store into the cache and the return
Resolve(t) ==
    /\ threads[t].pc = "resolving"
    /\ LET k  == threads[t].device.type
           fn == get_monotonic_attention_fn(k, triton)
       IN  /\ cache' = [cache EXCEPT ![k] = fn]
           /\ resolutions' = [resolutions EXCEPT ![k] = @ + 1]
           /\ threads' = [threads EXCEPT ![t] = [@ EXCEPT !.pc = "idle", !.fn = fn]]
    /\ UNCHANGED triton
    /\ UNCHANGED <<dpVars, callVars, layerVars, restVars>>

NextDispatch ==
    \/ \E t \in Threads : Lookup(t)
    \/ \E t \in Threads : Resolve(t)

SpecDispatch == InitDispatch /\ [][NextDispatch]_vars

---------------------------------------------------------------------------
(* Invocations: several calls of monotonic_attention_cpu may be in flight, *)
(* each made through MonotonicAttentionCpu.apply, which hands forward and  *)
(* backward the context object of that call.  Forward and backward of one  *)
(* call are single steps here; calls interleave freely.                    *)

MaxCalls == 2

Calls == 1..MaxCalls

\* the logits a call may be made with: batch 1, shapes (1, 2), (2, 1), (2, 2)
CallShapes == {<<1, 2>>, <<2, 1>>, <<2, 2>>}

CallLogits ==
    {InputLogits(1, sh[1], sh[2], 3, 1, 1) : sh \in CallShapes}
        \cup {InputLogits(1, 2, 2, 0, 1, 1)}

NewCall ==
    [pc |-> "new", logits |-> NoTensor, warned |-> FALSE, out |-> NoTensor,
     grad_output |-> NoTensor, used |-> <<>>, overlapped |-> FALSE,
     result |-> NoTensor,
     second |-> "none"]

\* lines 60-69: for i in range(t_i - 2, -1, -1)
RECURSIVE LoopGrad(_, _, _, _, _)
LoopGrad(lg, ph, gp, gl, r) ==
    IF r < 0 THEN gl
    ELSE LoopGrad(lg, ph, StepGradPhis(lg, ph, gp, r),
                  StepGradLogits(lg, ph, gp, gl, r), r - 1)

\* the whole function: lines 55-70
backward_pass_cpu_(lg, ph, gp, g) ==
    LET t_i == Rows(lg)
    IN  TRAdd(LoopGrad(lg, ph, gp, InitGradLogits(gp, t_i, g), t_i - 2),
              ExtraGrad(lg, gp))

\* faulty variant: the warning also fires for equal lengths
Warns_OrEqual(tsz_src, tsz_tgt) == tsz_tgt >= tsz_src

\* line 99: if tsz_tgt > tsz_src
Warns(tsz_src, tsz_tgt) == tsz_tgt > tsz_src

\* faulty variant: one context shared by all calls
CtxOf_Shared(c) == 1

\* line 101: MonotonicAttentionCpu.apply makes a context object for the call
CtxOf(c) == c

\* faulty variant: backward is not marked once_differentiable
once_differentiable_Absent == FALSE

\* line 81: backward is decorated with @once_differentiable
once_differentiable == TRUE

InitCalls ==
    /\ DpIdle
    /\ DispatchIdle
    /\ LayerIdle
    /\ RestIdle
    /\ calls = [c \in Calls |-> NewCall]
    /\ ctx = [c \in Calls |-> <<>>]

\* lines 98-101 and 75-78: monotonic_attention_cpu(logits)
Call(c) ==
    /\ calls[c].pc = "new"
    /\ \E lg \in CallLogits : \E g \in GarbageLog :
        LET fp == forward_pass_cpu_(lg, g)
        IN  /\ calls' = [calls EXCEPT ![c] =
                   [@ EXCEPT !.pc = "forwarded",
                             !.logits = lg,
                             !.warned = Warns(Rows(lg), Cols(lg)),
                             !.out = fp[2]]]
            /\ ctx' = [ctx EXCEPT ![CtxOf(c)] = <<lg, fp[1]>>]
    /\ UNCHANGED <<dpVars, dispatchVars, layerVars, restVars>>

\* lines 82-85: backward(ctx, grad_phis) on the context of call c
Backward(c) ==
    /\ calls[c].pc = "forwarded"
    /\ \E h \in {1, 2} : \E g \in GarbageNum :
        LET sv == ctx[CtxOf(c)]
            go == InputGrad(Bsz(sv[1]), Rows(sv[1]), Cols(sv[1]), h)
        IN  calls' = [calls EXCEPT ![c] =
                [@ EXCEPT !.pc = "backwarded",
                          !.grad_output = go,
                          !.used = sv,
                          !.overlapped = \E d \in Calls \ {c} : calls[d].pc = "forwarded",
                          !.result = backward_pass_cpu_(sv[1], sv[2], go, g)]]
    /\ UNCHANGED ctx
    /\ UNCHANGED <<dpVars, dispatchVars, layerVars, restVars>>

\* line 81: an attempt to differentiate the gradient that backward returned
DoubleBackward(c) ==
    /\ calls[c].pc = "backwarded"
    /\ calls' = [calls EXCEPT ![c] =
           [@ EXCEPT !.pc = "second",
                     !.second = IF once_differentiable THEN "error" ELSE "returned"]]
    /\ UNCHANGED ctx
    /\ UNCHANGED <<dpVars, dispatchVars, layerVars, restVars>>

NextCalls ==
    \/ \E c \in Calls : Call(c)
    \/ \E c \in Calls : Backward(c)
    \/ \E c \in Calls : DoubleBackward(c)

SpecCalls == InitCalls /\ [][NextCalls]_vars

---------------------------------------------------------------------------
(* Reference definitions used by the properties. *)

\* sigmoid(x) = 1 / (1 + exp(-x))
Sigmoid(x) == RDiv(One, RAdd(One, Exp(LNeg(x))))

\* a < b on log-space numbers (a larger o is a smaller number)
LLt(a, b) == a.o > b.o \/ (a.o = b.o /\ RLt(a.q, b.q))

IsShape(t, B, S, T) ==
    /\ DOMAIN t = 0..(B - 1)
    /\ \A b \in DOMAIN t :
        /\ DOMAIN t[b] = 0..(S - 1)
        /\ \A r \in DOMAIN t[b] : DOMAIN t[b][r] = 0..(T - 1)

RECURSIVE SumF(_, _)
SumF(f, S) ==
    IF S = {} THEN Zero
    ELSE LET e == CHOOSE x \in S : TRUE IN RAdd(f[e], SumF(f, S \ {e}))

\* A path of the padded grid is a sequence m of moves out of the start cell
\* (row 0, column 1): m[k] = 0 stays in its column, m[k] = 1 advances one
\* column, and either way the path goes from row k - 1 to row k.
RECURSIVE EndCol(_, _)
EndCol(m, k) == IF k = 0 THEN 1 ELSE m[k] + EndCol(m, k - 1)

\* product of the branch weights of moves k..Len(m), the path being in column
\* col of row k - 1: sigmoid(L) to stay, sigmoid(-L) to advance
RECURSIVE PathWeight(_, _, _, _, _)
PathWeight(pl, b, m, k, col) ==
    IF k > Len(m) THEN One
    ELSE IF m[k] = 0
         THEN RMul(Sigmoid(pl[b][k - 1][col]), PathWeight(pl, b, m, k + 1, col))
         ELSE RMul(Sigmoid(LNeg(pl[b][k - 1][col])), PathWeight(pl, b, m, k + 1, col + 1))

PathsTo(r, c) == {m \in [1..r -> {0, 1}] : EndCol(m, r) = c}

PathSum(pl, b, r, c) ==
    LET P == PathsTo(r, c)
    IN  SumF([m \in P |-> PathWeight(pl, b, m, 1, 1)], P)

---------------------------------------------------------------------------
(* The layer: a MonotonicAttention module is constructed from its          *)
(* configuration and then called.  The scaled dot products of the          *)
(* projected queries and keys are an input of the model (the projection    *)
(* weights are random), one value per head, query and key; everything      *)
(* after them is computed: mask, clamp, alignment, softmax, weighted sum.  *)

MaxEmbed == 4
MaxHeads == 2

ValidModes == {"many_keys_one_query", "one_key_many_queries"}

\* the two modes of line 104 and a string that is neither
Modes == ValidModes \cup {"many_to_many"}

ClampProbs == {<<1, 4>>, <<1, 2>>, <<3, 4>>, <<32, 33>>, <<1, 1>>, <<5, 4>>}

Configs ==
    [mode : Modes, embed_dim : 1..MaxEmbed, num_heads : 1..MaxHeads,
     gqa_factor : 1..MaxHeads, clamp_prob : ClampProbs, soft_clamp : BOOLEAN]

\* what the random initialisation may leave in out_proj.weight
OutWeights == {<<1, 2>>, <<-2, 1>>}

\* (Tq, Tk) of the calls
LayerShapes == {<<1, 1>>, <<1, 2>>, <<2, 1>>, <<2, 2>>}

\* scaled dot products: about -1e4, 0, about +1e4, then +-log 2, +-log 3,
\* +-log 64
ScoreValues ==
    << LogNum(1, One), LZero, LogNum(-1, One),
       LogNum(0, <<2, 1>>), LogNum(0, <<1, 2>>),
       LogNum(0, <<3, 1>>), LogNum(0, <<1, 3>>),
       LogNum(0, <<64, 1>>), LogNum(0, <<1, 64>>) >>

InputScores(N, Tq, Tk, k0) ==
    [n \in 0..(N - 1) |-> [q \in 0..(Tq - 1) |-> [k \in 0..(Tk - 1) |->
        ScoreValues[1 + ((k0 + n + q + 2 * k) % Len(ScoreValues))]]]]

\* the additive mask of a call: none, or about -1e4 on every key after the
\* query's own position
InputMasks(Tq, Tk) ==
    {NoTensor,
     [b \in {0} |-> [q \in 0..(Tq - 1) |-> [k \in 0..(Tk - 1) |->
        IF k > q THEN LogNum(1, One) ELSE LZero]]]}

\* the projected values, one channel per head
InputValues(H, Tk) ==
    [h \in 0..(H - 1) |-> [k \in 0..(Tk - 1) |->
        GradValues[1 + ((1 + h + k) % Len(GradValues))]]]

\* b to the power e, as long as it stays within cap
RECURSIVE PowUpTo(_, _, _)
PowUpTo(b, e, cap) ==
    IF e = 0 THEN 1
    ELSE LET p == PowUpTo(b, e - 1, cap) IN IF p > cap THEN p ELSE p * b

\* the positive integer whose d-th power is a, or 0 when there is none
Root(a, d) ==
    IF a = 1 THEN 1
    ELSE IF d > 30 THEN 0
    ELSE IF \E r \in 1..a : PowUpTo(r, d, a) = a
         THEN CHOOSE r \in 1..a : PowUpTo(r, d, a) = a
         ELSE 0

\* t * c for a plain number t and a log-space number c = log(q): log(q^t),
\* held exactly when q^t is a fraction
Representable(t, c) == Root(c.q[1], t[2]) # 0 /\ Root(c.q[2], t[2]) # 0

LScale(t, c) ==
    LET n  == Abs(t[1])
        ra == PowUpTo(Root(c.q[1], t[2]), n, 1000000)
        rb == PowUpTo(Root(c.q[2], t[2]), n, 1000000)
    IN  IF t[1] >= 0 THEN LogNum(0, <<ra, rb>>) ELSE LogNum(0, <<rb, ra>>)

\* math.log of a positive plain number
Log(r) == LogNum(0, r)

\* lines 124-125: -math.log((1 / prob) - 1)
neg_prob_to_phi(prob) == LNeg(Log(RSub(RInv(prob), One)))

\* faulty variant: the lower end of the range is closed
ClampProbOk_Closed(clamp_prob) == RLe(<<1, 2>>, clamp_prob) /\ RLt(clamp_prob, One)

\* line 220: clamp_prob > 0.5 and clamp_prob < 1.0
ClampProbOk(clamp_prob) == RLt(<<1, 2>>, clamp_prob) /\ RLt(clamp_prob, One)

NoLayer ==
    [state |-> "none", error |-> "none", cfg |-> <<>>, mode |-> "none",
     num_heads |-> 0, gqa_factor |-> 0, kv_num_heads |-> 0, head_dim |-> 0,
     embed_dim |-> 0, kv_embed_dim |-> 0, clamp_value |-> LZero,
     soft_clamp |-> FALSE, in_proj_weight |-> <<0, 0>>, out_proj |-> Zero]

\* lines 216-256: the three assertions, then the attributes and parameters
\* (kdim and vdim left at None, bias at True); w is what the initialisation
\* leaves in out_proj.weight
__init__(cfg, w) ==
    IF cfg.embed_dim % cfg.num_heads # 0
    THEN [NoLayer EXCEPT !.state = "failed", !.error = "AssertionError", !.cfg = cfg]
    ELSE IF cfg.num_heads % cfg.gqa_factor # 0
    THEN [NoLayer EXCEPT !.state = "failed", !.error = "AssertionError", !.cfg = cfg]
    ELSE IF ~ClampProbOk(cfg.clamp_prob)
    THEN [NoLayer EXCEPT !.state = "failed", !.error = "AssertionError", !.cfg = cfg]
    ELSE LET kv_num_heads == cfg.num_heads \div cfg.gqa_factor
             head_dim     == cfg.embed_dim \div cfg.num_heads
             kv_embed_dim == kv_num_heads * head_dim
         IN  [state |-> "built", error |-> "none", cfg |-> cfg,
              mode |-> cfg.mode,
              num_heads |-> cfg.num_heads,
              gqa_factor |-> cfg.gqa_factor,
              kv_num_heads |-> kv_num_heads,
              head_dim |-> head_dim,
              embed_dim |-> cfg.embed_dim,
              kv_embed_dim |-> kv_embed_dim,
              clamp_value |-> neg_prob_to_phi(cfg.clamp_prob),
              soft_clamp |-> cfg.soft_clamp,
              in_proj_weight |-> <<cfg.embed_dim + kv_embed_dim * 2, cfg.embed_dim>>,
              out_proj |-> w]

\* faulty variant: the two bounds are given in the wrong order, clamp(c, -c)
HardClamp_Swapped(x, c) ==
    LET lo == IF LLt(x, c) THEN c ELSE x
    IN  IF LLt(LNeg(c), lo) THEN LNeg(c) ELSE lo

\* line 272: attn.clamp(-c, c), that is min(max(x, -c), c)
HardClamp(x, c) ==
    LET lo == IF LLt(x, LNeg(c)) THEN LNeg(c) ELSE x
    IN  IF LLt(c, lo) THEN c ELSE lo

\* faulty variant: the sign of x in place of its hyperbolic tangent
Tanh_Sign(x) ==
    IF LLt(x, LZero) THEN RNeg(One) ELSE IF LLt(LZero, x) THEN One ELSE Zero

\* torch.tanh of x = o * -1e4 + log(q): exactly -1.0 or 1.0 when o is not 0
\* (the float nearest to tanh(+-1e4)), and (q^2 - 1) / (q^2 + 1) otherwise
Tanh(x) ==
    IF x.o > 0 THEN RNeg(One)
    ELSE IF x.o < 0 THEN One
    ELSE RDiv(RSub(RMul(x.q, x.q), One), RAdd(RMul(x.q, x.q), One))

\* line 273: attn.tanh() * c
SoftClamp(x, c) == LScale(Tanh(x), c)

\* t, fully evaluated (comparing a tensor makes TLC build it once instead of
\* recomputing a cell at every use)
Evaluated(t) == IF t = t THEN t ELSE NoTensor

\* lines 270-273
_clamp_attn(lay, attn) ==
    [n \in DOMAIN attn |-> [r \in DOMAIN attn[n] |-> [k \in DOMAIN attn[n][r] |->
        IF ~lay.soft_clamp
        THEN HardClamp(attn[n][r][k], lay.clamp_value)
        ELSE SoftClamp(attn[n][r][k], lay.clamp_value)]]]

\* t.transpose(-2, -1)
Transpose(t) ==
    [n \in DOMAIN t |-> [c \in 0..(Cols(t) - 1) |-> [r \in 0..(Rows(t) - 1) |->
        t[n][r][c]]]]

\* lines 279 and 286-288: the layout the mode works in, "bghqk" for
\* one_key_many_queries and "bghkq" for many_keys_one_query
Layout(mode, t) == IF mode = "many_keys_one_query" THEN Transpose(t) ELSE t

\* lines 280-281 and 287-288: attn + mask[:, None, None], batch size 1
AddMask(attn, mask) ==
    IF mask = NoTensor THEN attn
    ELSE [n \in DOMAIN attn |-> [r \in DOMAIN attn[n] |-> [k \in DOMAIN attn[n][r] |->
            LAdd(attn[n][r][k], mask[0][r][k])]]]

\* the logits a call clamps: the dot products in the layout of the mode, plus
\* the mask in the same layout
MaskedScores(mode, scores, mask) ==
    AddMask(IF mode = "many_keys_one_query" THEN Transpose(scores) ELSE scores,
            IF mask = NoTensor THEN mask ELSE Layout(mode, mask))

\* lines 283 and 290-291: monotonic_attention on the clamped logits, and the
\* transposition back in mode many_keys_one_query
Aligned(lay, attn, clamped, g) ==
    [raised |-> "none", attn |-> attn, clamped |-> clamped,
     out |-> Evaluated(IF lay.mode = "many_keys_one_query"
                       THEN Transpose(forward_pass_cpu_(clamped, g)[2])
                       ELSE forward_pass_cpu_(clamped, g)[2])]

\* lines 282 and 289: the clamp of the masked logits, then the alignment
Clamped(lay, attn, g) == Aligned(lay, attn, Evaluated(_clamp_attn(lay, attn)), g)

\* faulty variant: the dot products are clamped first and the mask is added
\* to the clamped logits
_compute_attn_ClampFirst(lay, scores, mask, g) ==
    IF lay.mode \in ValidModes
    THEN Aligned(lay, Evaluated(MaskedScores(lay.mode, scores, mask)),
                 Evaluated(AddMask(_clamp_attn(lay, Layout(lay.mode, scores)),
                                   IF mask = NoTensor THEN mask
                                   ELSE Layout(lay.mode, mask))), g)
    ELSE [raised |-> "NotImplementedError", attn |-> NoTensor,
          clamped |-> NoTensor, out |-> NoTensor]

\* lines 275-293, on the dot products scores[n][q][k]; the result is in the
\* layout (q, k) whatever the mode
_compute_attn(lay, scores, mask, g) ==
    IF lay.mode \in ValidModes
    THEN Clamped(lay, Evaluated(MaskedScores(lay.mode, scores, mask)), g)
    ELSE [raised |-> "NotImplementedError", attn |-> NoTensor,
          clamped |-> NoTensor, out |-> NoTensor]

\* faulty variant: the softmax over the first of the last two axes
Softmax_OverRows(t) ==
    [n \in DOMAIN t |-> [r \in DOMAIN t[n] |-> [k \in DOMAIN t[n][r] |->
        LET col == [r2 \in DOMAIN t[n] |-> t[n][r2][k]]
            m   == CHOOSE o \in {col[j].o : j \in DOMAIN col} :
                       \A j \in DOMAIN col : o <= col[j].o
            tot == SumF([j \in DOMAIN col |-> IF col[j].o = m THEN col[j].q ELSE Zero],
                        DOMAIN col)
        IN  IF col[r].o = m THEN RDiv(col[r].q, tot) ELSE Zero]]]

\* line 351: .softmax(dim=-1); the largest entry is subtracted first, so an
\* entry a multiple of 1e4 below it has weight 0
Softmax(t) ==
    [n \in DOMAIN t |-> [r \in DOMAIN t[n] |->
        LET row == t[n][r]
            m   == CHOOSE o \in {row[j].o : j \in DOMAIN row} :
                       \A j \in DOMAIN row : o <= row[j].o
            tot == SumF([j \in DOMAIN row |-> IF row[j].o = m THEN row[j].q ELSE Zero],
                        DOMAIN row)
        IN  [k \in DOMAIN row |-> IF row[k].o = m THEN RDiv(row[k].q, tot) ELSE Zero]]]

\* line 352: einsum("bghqk,bghkc->bghqc"), one channel, the values of head
\* n % H for the flattened index n
WeightedSum(w, xv) ==
    [n \in DOMAIN w |-> [q \in DOMAIN w[n] |->
        LET v == xv[n % Size(xv)]
        IN  SumF([k \in DOMAIN w[n][q] |-> RMul(w[n][q][k], v[k])], DOMAIN w[n][q])]]

\* lines 353-354: the heads side by side, then out_proj with zero bias; one
\* output channel whose weights all equal lay.out_proj
OutProj(lay, xo) ==
    [q \in DOMAIN xo[0] |->
        RMul(lay.out_proj, SumF([n \in DOMAIN xo |-> xo[n][q]], DOMAIN xo))]

\* lines 352-355: the weighted sum of the values and the output projection
Projected(lay, xv, ca, attn) ==
    [raised |-> "none", ca |-> ca, weights |-> attn,
     xo |-> OutProj(lay, WeightedSum(attn, xv))]

\* line 351, on what _compute_attn returned or raised
Normalised(lay, xv, ca) ==
    IF ca.raised # "none"
    THEN [raised |-> ca.raised, ca |-> ca, weights |-> NoTensor, xo |-> <<>>]
    ELSE Projected(lay, xv, ca, Evaluated(Softmax(ca.out)))

\* lines 350-355
forward_attn(lay, scores, xv, mask, g) ==
    Normalised(lay, xv, _compute_attn(lay, scores, mask, g))

\* lines 295-331 with query, key and value all given: the shapes of xq, xk
\* and xv for batch size 1
forward_matmuls(lay, Tq, Tk) ==
    << <<1, lay.gqa_factor, lay.kv_num_heads, Tq, lay.head_dim>>,
       <<1, 1, lay.kv_num_heads, Tk, lay.head_dim>>,
       <<1, 1, lay.kv_num_heads, Tk, lay.head_dim>> >>

NoCall ==
    [op |-> "none", outcome |-> "none", scores |-> NoTensor, mask |-> NoTensor,
     attn |-> NoTensor, clamped |-> NoTensor, out |-> NoTensor,
     weights |-> NoTensor, xo |-> <<>>, shapes |-> <<>>]

\* the record of a call that went through _compute_attn only
AttnMatrixCall(op, scores, mask, shapes, ca) ==
    [NoCall EXCEPT
        !.op = op,
        !.outcome = IF ca.raised # "none" THEN ca.raised ELSE "returned",
        !.scores = scores, !.mask = mask, !.shapes = shapes,
        !.attn = ca.attn, !.clamped = ca.clamped, !.out = ca.out]

\* the record of a call that went through forward_attn
AttnCall(op, scores, mask, shapes, fa) ==
    [NoCall EXCEPT
        !.op = op,
        !.outcome = IF fa.raised # "none" THEN fa.raised ELSE "returned",
        !.scores = scores, !.mask = mask, !.shapes = shapes,
        !.attn = fa.ca.attn, !.clamped = fa.ca.clamped, !.out = fa.ca.out,
        !.weights = fa.weights, !.xo = fa.xo]

\* the inputs a call is made with: the model holds t * c exactly only when
\* it is the logarithm of a fraction
Exact(lay, scores, mask) ==
    (lay.mode \in ValidModes /\ lay.soft_clamp) =>
        LET attn == MaskedScores(lay.mode, scores, mask)
        IN  \A n \in DOMAIN attn : \A r \in DOMAIN attn[n] : \A k \in DOMAIN attn[n][r] :
                Representable(Tanh(attn[n][r][k]), lay.clamp_value)

InitLayer ==
    /\ DpIdle
    /\ DispatchIdle
    /\ CallsIdle
    /\ RestIdle
    /\ layer = NoLayer
    /\ lcall = NoCall

\* lines 203-256: MonotonicAttention(mode, embed_dim, ...)
Construct ==
    /\ layer.state = "none"
    /\ \E cfg \in Configs : \E w \in OutWeights : layer' = __init__(cfg, w)
    /\ UNCHANGED lcall
    /\ UNCHANGED <<dpVars, dispatchVars, callVars, restVars>>

\* lines 295-331: layer.forward_matmuls(query, key, value)
CallForwardMatmuls ==
    /\ layer.state = "built"
    /\ lcall.op = "none"
    /\ \E sh \in LayerShapes :
        lcall' = [NoCall EXCEPT !.op = "forward_matmuls",
                                !.outcome = "returned",
                                !.shapes = forward_matmuls(layer, sh[1], sh[2])]
    /\ UNCHANGED layer
    /\ UNCHANGED <<dpVars, dispatchVars, callVars, restVars>>

\* lines 333-348: layer.get_attn_matrix(query, key, mask)
CallGetAttnMatrix ==
    /\ layer.state = "built"
    /\ lcall.op = "none"
    /\ \E sh \in LayerShapes : \E k0 \in 0..(Len(ScoreValues) - 1) :
       \E mask \in InputMasks(sh[1], sh[2]) : \E g \in GarbageLog :
        /\ Exact(layer, InputScores(layer.num_heads, sh[1], sh[2], k0), mask)
        /\ lcall' = AttnMatrixCall("get_attn_matrix",
               InputScores(layer.num_heads, sh[1], sh[2], k0), mask,
               forward_matmuls(layer, sh[1], sh[2]),
               _compute_attn(layer, InputScores(layer.num_heads, sh[1], sh[2], k0),
                             mask, g))
    /\ UNCHANGED layer
    /\ UNCHANGED <<dpVars, dispatchVars, callVars, restVars>>

\* lines 350-355: layer.forward_attn(xq, xk, xv, mask)
CallForwardAttn ==
    /\ layer.state = "built"
    /\ lcall.op = "none"
    /\ \E sh \in LayerShapes : \E k0 \in 0..(Len(ScoreValues) - 1) :
       \E mask \in InputMasks(sh[1], sh[2]) : \E g \in GarbageLog :
        /\ Exact(layer, InputScores(layer.num_heads, sh[1], sh[2], k0), mask)
        /\ lcall' = AttnCall("forward_attn",
               InputScores(layer.num_heads, sh[1], sh[2], k0), mask, <<>>,
               forward_attn(layer, InputScores(layer.num_heads, sh[1], sh[2], k0),
                            InputValues(layer.kv_num_heads, sh[2]), mask, g))
    /\ UNCHANGED layer
    /\ UNCHANGED <<dpVars, dispatchVars, callVars, restVars>>

\* lines 357-360: layer(query, key, value, mask)
CallForward ==
    /\ layer.state = "built"
    /\ lcall.op = "none"
    /\ \E sh \in LayerShapes : \E k0 \in 0..(Len(ScoreValues) - 1) :
       \E mask \in InputMasks(sh[1], sh[2]) : \E g \in GarbageLog :
        /\ Exact(layer, InputScores(layer.num_heads, sh[1], sh[2], k0), mask)
        /\ lcall' = AttnCall("forward",
               InputScores(layer.num_heads, sh[1], sh[2], k0), mask,
               forward_matmuls(layer, sh[1], sh[2]),
               forward_attn(layer, InputScores(layer.num_heads, sh[1], sh[2], k0),
                            InputValues(layer.kv_num_heads, sh[2]), mask, g))
    /\ UNCHANGED layer
    /\ UNCHANGED <<dpVars, dispatchVars, callVars, restVars>>

NextLayer ==
    \/ Construct
    \/ CallForwardMatmuls
    \/ CallGetAttnMatrix
    \/ CallForwardAttn
    \/ CallForward

SpecLayer == InitLayer /\ [][NextLayer]_vars

---------------------------------------------------------------------------
(* Long sequences.  The records [o, q] above treat MIN_LOG_PROB as a        *)
(* magnitude no sum of log-probabilities comes near, which holds for the   *)
(* short tables of Spec.  Here column 0 of the phi table is followed over  *)
(* thousands of source rows, by magnitude: a value is an integer number of *)
(* thousandths, and every rounding is upwards, so the phi held here is     *)
(* never below the phi the code computes.                                  *)
MaxLongRows == 2600

\* line 16, in thousandths
MinLogProbMilli == -10000 * 1000

\* clamp_prob: the default 0.98 (line 213) and 0.75
LongClampProbs == {<<49, 50>>, <<3, 4>>}

\* the clamped logit every row of the column holds: -c, 0 or c
LongLogits(clamp_prob) ==
    {LNeg(neg_prob_to_phi(clamp_prob)), LZero, neg_prob_to_phi(clamp_prob)}

\* source lengths of the calls
LongLengths == {1, 2, MaxLongRows \div 2, MaxLongRows}

\* 1000 * log(q), rounded upwards, of the probabilities the logits above give
LogMilli(q) ==
    CASE q = <<1, 1>> -> 0
      [] q = <<49, 50>> -> -20
      [] q = <<3, 4>> -> -287
      [] q = <<1, 2>> -> -693
      [] q = <<1, 4>> -> -1386
      [] q = <<1, 50>> -> -3912

\* 1000 * log1p(exp(-d / 1000)) for d >= 0, rounded upwards
Log1pExpMilli(d) ==
    CASE d < 1000 -> 694
      [] d >= 1000 /\ d < 2000 -> 314
      [] d >= 2000 /\ d < 3000 -> 127
      [] d >= 3000 /\ d < 4000 -> 49
      [] d >= 4000 /\ d < 5000 -> 19
      [] d >= 5000 /\ d < 6000 -> 7
      [] d >= 6000 /\ d < 7000 -> 3
      [] d >= 7000 -> 1

\* lines 19-20 on magnitudes: the larger term plus log1p(exp(-|a - b|))
LogAddExpMilli(a, b) ==
    (IF a >= b THEN a ELSE b) + Log1pExpMilli(Abs(a - b))

\* line 47: phis[i - 1, 1] + _pos_log_prob(logits[i - 1, 1])
LongStay(phi, logit) == phi + LogMilli(_pos_log_prob(logit).q)

\* line 48: phis[i - 1, 0] + _neg_log_prob(logits[i - 1, 0]), where the pad
\* column holds MIN_LOG_PROB (line 43) and the pad logit is 0.0 (line 41)
LongSentinel == MinLogProbMilli + LogMilli(_neg_log_prob(LZero).q)

InitLong ==
    /\ DpIdle
    /\ DispatchIdle
    /\ CallsIdle
    /\ LayerIdle
    /\ RestIdle

\* lines 40-45: column 1 of the padded table starts at phis[0, 1] = 0.0
LongStart ==
    /\ long = <<>>
    /\ \E clamp_prob \in LongClampProbs, t_i \in LongLengths :
           \E logit \in LongLogits(clamp_prob) :
               long' = [pc |-> "loop", clamp_prob |-> clamp_prob,
                        logit |-> logit, t_i |-> t_i, i |-> 1, phi |-> 0,
                        stay |-> 0, sentinel |-> 0]
    /\ UNCHANGED <<coreVars, sep, lion, store>>

\* lines 46-49: one body of the loop, for the first unpadded column
LongStep ==
    /\ long # <<>>
    /\ long.pc = "loop"
    /\ long.i < long.t_i
    /\ long' = [long EXCEPT
                    !.stay = LongStay(long.phi, long.logit),
                    !.sentinel = LongSentinel,
                    !.phi = LogAddExpMilli(LongStay(long.phi, long.logit),
                                           LongSentinel),
                    !.i = long.i + 1]
    /\ UNCHANGED <<coreVars, sep, lion, store>>

\* lines 50-51: range(1, t_i) is exhausted
LongReturn ==
    /\ long # <<>>
    /\ long.pc = "loop"
    /\ long.i >= long.t_i
    /\ long' = [long EXCEPT !.pc = "done"]
    /\ UNCHANGED <<coreVars, sep, lion, store>>

NextLong ==
    \/ LongStart
    \/ LongStep
    \/ LongReturn

SpecLong == InitLong /\ [][NextLong]_vars

---------------------------------------------------------------------------
(* Weight decay groups (mlfab/nn/optimizers.py).  A model is the sequence   *)
(* of its modules in the order of nn.Module.named_modules (the root first, *)
(* then every child followed by its own descendants); a module has a path  *)
(* of attribute names (joined with "." in the source, empty for the root), *)
(* a kind and the parameters it owns directly.                             *)
MaxChildren == 2

ModuleKinds == {"Custom", "Linear", "Embedding", "LayerNorm"}

\* lines 54-63 and 65-72, the types of the tuples that the models here use
always_decay == {"Linear"}
never_decay == {"LayerNorm", "Embedding"}

\* the parameters a module of each kind registers itself: name and p.ndim
OwnParams(kind) ==
    CASE kind = "Linear" -> << [name |-> "weight", ndim |-> 2],
                               [name |-> "bias", ndim |-> 1] >>
      [] kind = "Embedding" -> << [name |-> "weight", ndim |-> 2] >>
      [] kind = "LayerNorm" -> << [name |-> "weight", ndim |-> 1],
                                  [name |-> "bias", ndim |-> 1] >>
      [] kind = "Custom" -> << [name |-> "table", ndim |-> 2] >>

ChildNames == << "m1", "m2", "m3", "m4" >>

\* a root with the children kids and, when nested is a kind, a further child
\* "block" that holds one module of that kind; the parameters of module
\* number frozen have requires_grad = False
ModelOf(rootKind, kids, nested, frozen) ==
    LET flat == << [path |-> << >>, kind |-> rootKind] >>
                \o [j \in 1..Len(kids) |-> [path |-> << ChildNames[j] >>, kind |-> kids[j]]]
                \o (IF nested = "none" THEN << >>
                    ELSE << [path |-> << "block" >>, kind |-> "Custom"],
                            [path |-> << "block", "inner" >>, kind |-> nested] >>)
    IN  [k \in 1..Len(flat) |->
            [path |-> flat[k].path, kind |-> flat[k].kind, requires_grad |-> k # frozen]]

KidSeqs == UNION {[1..n -> ModuleKinds] : n \in 0..MaxChildren}

Models ==
    {ModelOf(rk, << >>, "none", fr) : rk \in ModuleKinds, fr \in 0..1}
    \cup UNION {{ModelOf("Custom", kids, nested, fr) :
                     nested \in ModuleKinds \cup {"none"}, fr \in {0, Len(kids) + 1}} :
                 kids \in KidSeqs}

IsPrefix(a, b) == Len(a) <= Len(b) /\ SubSeq(b, 1, Len(a)) = a

\* the parameters module d owns, named relative to the module at path base
ParamsUnder(model, d, base) ==
    [k \in 1..Len(OwnParams(model[d].kind)) |->
        [name |-> SubSeq(model[d].path, Len(base) + 1, Len(model[d].path))
                      \o << OwnParams(model[d].kind)[k].name >>,
         owner |-> d,
         ndim |-> OwnParams(model[d].kind)[k].ndim,
         requires_grad |-> model[d].requires_grad]]

\* m.named_parameters(): the parameters of module mi and, recurse being left
\* at its default True, of every module below it, from module d on
RECURSIVE NamedParametersFrom(_, _, _)
NamedParametersFrom(model, mi, d) ==
    IF d > Len(model) THEN << >>
    ELSE (IF IsPrefix(model[mi].path, model[d].path)
          THEN ParamsUnder(model, d, model[mi].path) ELSE << >>)
         \o NamedParametersFrom(model, mi, d + 1)

named_parameters(model, mi) == NamedParametersFrom(model, mi, mi)

\* line 78: fpn = f"{mn}.{pn}" if mn else pn
FullName(mn, pn) == mn \o pn

NoSep == << >>

InitDecay ==
    /\ DpIdle
    /\ DispatchIdle
    /\ CallsIdle
    /\ LayerIdle
    /\ RestIdle

\* lines 51-53: separate_decayable_params(model, default_decay, weight_decay)
SepStart ==
    /\ sep = NoSep
    /\ \E model \in Models, default_decay \in BOOLEAN :
           sep' = [pc |-> "loop", model |-> model, default_decay |-> default_decay,
                   weight_decay |-> <<1, 100>>, mi |-> 1, k |-> 1,
                   wd_params |-> {}, no_wd_params |-> {}, seen |-> {},
                   groups |-> << >>, error |-> "none"]
    /\ UNCHANGED <<coreVars, long, lion, store>>

\* lines 75-89: one body of the inner loop, for the module m = model[mi] and
\* the k-th parameter that m.named_parameters() yields
SepParam ==
    /\ sep # NoSep
    /\ sep.pc = "loop"
    /\ sep.mi <= Len(sep.model)
    /\ sep.k <= Len(named_parameters(sep.model, sep.mi))
    /\ LET m   == sep.model[sep.mi]
           p   == named_parameters(sep.model, sep.mi)[sep.k]
           fpn == FullName(m.path, p.name)
       IN  sep' =
             IF ~p.requires_grad \/ fpn \in sep.seen
             THEN [sep EXCEPT !.k = sep.k + 1]
             ELSE IF p.ndim < 2
             THEN [sep EXCEPT !.k = sep.k + 1, !.seen = sep.seen \cup {fpn},
                              !.no_wd_params = sep.no_wd_params \cup {fpn}]
             ELSE IF m.kind \in never_decay
             THEN [sep EXCEPT !.k = sep.k + 1, !.seen = sep.seen \cup {fpn},
                              !.no_wd_params = sep.no_wd_params \cup {fpn}]
             ELSE IF m.kind \in always_decay
             THEN [sep EXCEPT !.k = sep.k + 1, !.seen = sep.seen \cup {fpn},
                              !.wd_params = sep.wd_params \cup {fpn}]
             ELSE IF sep.default_decay
             THEN [sep EXCEPT !.k = sep.k + 1, !.seen = sep.seen \cup {fpn},
                              !.wd_params = sep.wd_params \cup {fpn}]
             ELSE [sep EXCEPT !.k = sep.k + 1, !.seen = sep.seen \cup {fpn},
                              !.no_wd_params = sep.no_wd_params \cup {fpn}]
    /\ UNCHANGED <<coreVars, long, lion, store>>

\* line 74: the parameters of m are exhausted, named_modules() gives the next
SepNextModule ==
    /\ sep # NoSep
    /\ sep.pc = "loop"
    /\ sep.mi <= Len(sep.model)
    /\ sep.k > Len(named_parameters(sep.model, sep.mi))
    /\ sep' = [sep EXCEPT !.mi = sep.mi + 1, !.k = 1]
    /\ UNCHANGED <<coreVars, long, lion, store>>

\* the names of model.named_parameters() that require a gradient (line 91)
ParamDict(model) ==
    {named_parameters(model, 1)[k].name : k \in
        {j \in 1..Len(named_parameters(model, 1)) :
            named_parameters(model, 1)[j].requires_grad}}

\* lines 97-102: the groups, the decayed one first, an empty one left out; a
\* list of parameters is held as the set of their names
Groups(wd_params, no_wd_params, weight_decay) ==
    (IF wd_params # {}
     THEN << [params |-> wd_params, weight_decay |-> weight_decay] >> ELSE << >>)
    \o (IF no_wd_params # {}
        THEN << [params |-> no_wd_params, weight_decay |-> Zero] >> ELSE << >>)

\* lines 91-102
SepReturn ==
    /\ sep # NoSep
    /\ sep.pc = "loop"
    /\ sep.mi > Len(sep.model)
    /\ sep' =
         IF sep.wd_params \cap sep.no_wd_params # {}
         THEN [sep EXCEPT !.pc = "done", !.error = "AssertionError"]
         ELSE IF ParamDict(sep.model) \ (sep.wd_params \cup sep.no_wd_params) # {}
         THEN [sep EXCEPT !.pc = "done", !.error = "AssertionError"]
         ELSE [sep EXCEPT !.pc = "done",
                          !.groups = Groups(sep.wd_params, sep.no_wd_params,
                                            sep.weight_decay)]
    /\ UNCHANGED <<coreVars, long, lion, store>>

NextDecay ==
    \/ SepStart
    \/ SepParam
    \/ SepNextModule
    \/ SepReturn

SpecDecay == InitDecay /\ [][NextDecay]_vars

---------------------------------------------------------------------------
(* The Lion optimizer: construction picks the two update functions, and    *)
(* every step applies one of them to each parameter that has a gradient.   *)
(* What the functions compute does not bear on which of them runs; a step  *)
(* records, per parameter, the function that was applied to it.            *)
MaxParams == 2
MaxSteps == 2

\* the devices of the parameters handed to the optimizer, in one group
ParamLists == UNION {[1..n -> {"cpu", "cuda"}] : n \in 1..MaxParams}

\* lr and betas of a call: the defaults, and values the constructor rejects
LearningRates == {<<1, 10000>>, Zero}
Betas == {<< <<9, 10>>, <<99, 100>> >>, << <<3, 2>>, <<1, 2>> >>}

\* lines 141-147; supported is what supports_triton() answers
get_lion_update_fn(cpu, supported) ==
    IF cpu \/ ~supported THEN "_lion_update_fn_vanilla" ELSE "triton_update_fn"

NoLion ==
    [state |-> "none", error |-> "none", use_triton |-> FALSE, supported |-> FALSE,
     devices |-> << >>, update_fn |-> "none", update_fn_cuda |-> "none",
     exp_avg |-> {}, applied |-> << >>, steps |-> 0]

\* lines 192-211: Lion(params, use_triton, lr=lr, betas=betas)
Lion_init(devices, use_triton, lr, betas, supported) ==
    IF RLe(lr, Zero)
    THEN [NoLion EXCEPT !.state = "failed", !.error = "ValueError",
                        !.use_triton = use_triton, !.supported = supported,
                        !.devices = devices]
    ELSE IF ~(\A k \in 1..2 : RLe(Zero, betas[k]) /\ RLe(betas[k], One))
    THEN [NoLion EXCEPT !.state = "failed", !.error = "ValueError",
                        !.use_triton = use_triton, !.supported = supported,
                        !.devices = devices]
    ELSE [NoLion EXCEPT !.state = "built",
                        !.use_triton = use_triton, !.supported = supported,
                        !.devices = devices,
                        !.update_fn = get_lion_update_fn(TRUE, supported),
                        !.update_fn_cuda = get_lion_update_fn(use_triton, supported)]

InitLion ==
    /\ DpIdle
    /\ DispatchIdle
    /\ CallsIdle
    /\ LayerIdle
    /\ long = << >>
    /\ sep = << >>
    /\ store = << >>
    /\ lion = NoLion

LionConstruct ==
    /\ lion.state = "none"
    /\ \E devices \in ParamLists, use_triton \in BOOLEAN, supported \in BOOLEAN :
       \E lr \in LearningRates, betas \in Betas :
           lion' = Lion_init(devices, use_triton, lr, betas, supported)
    /\ UNCHANGED <<coreVars, long, sep, store>>

\* line 241: the function for a gradient on the given device
UpdateFnFor(opt, device) ==
    IF device = "cuda" THEN opt.update_fn_cuda ELSE opt.update_fn

\* lines 227-243: optimizer.step(); has_grad is the set of parameters whose
\* p.grad is not None, the gradient of a parameter being on its device
LionStep ==
    /\ lion.state = "built"
    /\ lion.steps < MaxSteps
    /\ \E has_grad \in SUBSET (1..Len(lion.devices)) :
           lion' = [lion EXCEPT
                       !.exp_avg = lion.exp_avg \cup has_grad,
                       !.applied = [k \in 1..Len(lion.devices) |->
                                       IF k \in has_grad
                                       THEN UpdateFnFor(lion, lion.devices[k])
                                       ELSE "none"],
                       !.steps = lion.steps + 1]
    /\ UNCHANGED <<coreVars, long, sep, store>>

NextLion ==
    \/ LionConstruct
    \/ LionStep

SpecLion == InitLion /\ [][NextLion]_vars

---------------------------------------------------------------------------
(* The stored config (mlfab/utils/experiments.py).  A config is a tree of  *)
(* nodes: a scalar (held as the text YAML gives it), an enum member, the   *)
(* missing value "???", a ListConfig or a DictConfig.                      *)
MaxListLen == 2

Node(t, v, list, dict) == [t |-> t, v |-> v, list |-> list, dict |-> dict]

Scalar(v) == Node("scalar", v, << >>, << >>)
EnumMember(name) == Node("enum", name, << >>, << >>)
Missing == Node("missing", "???", << >>, << >>)
ListConfig(items) == Node("list", "", items, << >>)
DictConfig(entries) == Node("dict", "", << >>, entries)

\* the keys of the configs here, in the order the loops below take them (the
\* order in which Python iterates a set of keys is arbitrary)
KeyOrder == << "lr", "dims", "model" >>

Items == {Scalar("1"), Scalar("2"), DictConfig([k \in {"lr"} |-> Scalar("1")])}

ValuesOf(key) ==
    CASE key = "lr" -> {Missing, Scalar("A"), EnumMember("A")}
      [] key = "dims" -> {ListConfig(l) : l \in UNION {[1..n -> Items] : n \in 0..MaxListLen}}
      [] key = "model" -> {DictConfig([k \in {"lr"} |-> Scalar(v)]) : v \in {"1", "2"}}

RawConfigs ==
    UNION {{DictConfig(e) : e \in {f \in [K -> UNION {ValuesOf(k) : k \in K}] :
                                        \A k \in K : f[k] \in ValuesOf(k)}} :
           K \in SUBSET {"lr", "dims", "model"}}

IsConfig(n) == n.t \in {"list", "dict"}

\* OmegaConf.save followed by OmegaConf.load: YAML holds an enum member as
\* its name, everything else comes back as it was
RECURSIVE Yaml(_)
Yaml(n) ==
    CASE n.t = "enum" -> Scalar(n.v)
      [] n.t = "list" -> ListConfig([k \in 1..Len(n.list) |-> Yaml(n.list[k])])
      [] n.t = "dict" -> DictConfig([k \in DOMAIN n.dict |-> Yaml(n.dict[k])])
      [] OTHER -> n

NonePrefix == << >>

\* lines 330-333, the inner get_diff_string: one line of a diff
DiffLine(prefix, val) ==
    << [prefix |-> IF prefix = NonePrefix THEN << "None" >> ELSE prefix,
        val |-> IF val.t = "scalar" THEN val.v ELSE "..."] >>

\* lines 335-336
cast_enums(k) == IF k.t = "enum" THEN Scalar(k.v) ELSE k

\* the two lists of a diff, joined pairwise
Joined(a, b) == << a[1] \o b[1], a[2] \o b[2] >>

\* line 351: sub_prefix = key if prefix is None else f"{prefix}.{key}"
SubPrefix(prefix, key) == IF prefix = NonePrefix THEN << key >> ELSE prefix \o << key >>

\* lines 346-347: f"{prefix}.{key}" for the keys of a that b does not have
NewKeys(a, b, prefix) ==
    LET P == IF prefix = NonePrefix THEN << "None" >> ELSE prefix
        has(k) == KeyOrder[k] \in DOMAIN a.dict /\ KeyOrder[k] \notin DOMAIN b.dict
    IN  SelectSeq([k \in 1..Len(KeyOrder) |->
                      [prefix |-> P \o << KeyOrder[k] >>,
                       val |-> IF has(k) THEN "key" ELSE "absent"]],
                  LAMBDA line : line.val = "key")

RECURSIVE diff_configs(_, _, _)
RECURSIVE DiffKeys(_, _, _, _)
RECURSIVE DiffItems(_, _, _, _)
RECURSIVE Extra(_, _, _, _)

\* lines 350-363: the keys both configs have, from the k-th of KeyOrder on
DiffKeys(first, second, prefix, k) ==
    IF k > Len(KeyOrder) THEN << << >>, << >> >>
    ELSE IF KeyOrder[k] \notin (DOMAIN first.dict \cap DOMAIN second.dict)
    THEN DiffKeys(first, second, prefix, k + 1)
    ELSE Joined(
           IF first.dict[KeyOrder[k]].t = "missing" \/ second.dict[KeyOrder[k]].t = "missing"
           THEN << IF first.dict[KeyOrder[k]].t # "missing"
                   THEN DiffLine(SubPrefix(prefix, KeyOrder[k]), first.dict[KeyOrder[k]])
                   ELSE << >>,
                   IF second.dict[KeyOrder[k]].t # "missing"
                   THEN DiffLine(SubPrefix(prefix, KeyOrder[k]), second.dict[KeyOrder[k]])
                   ELSE << >> >>
           ELSE IF IsConfig(first.dict[KeyOrder[k]]) /\ IsConfig(second.dict[KeyOrder[k]])
           THEN diff_configs(first.dict[KeyOrder[k]], second.dict[KeyOrder[k]],
                             SubPrefix(prefix, KeyOrder[k]))
           ELSE IF cast_enums(first.dict[KeyOrder[k]]) # cast_enums(second.dict[KeyOrder[k]])
           THEN << DiffLine(SubPrefix(prefix, KeyOrder[k]), first.dict[KeyOrder[k]]),
                   DiffLine(SubPrefix(prefix, KeyOrder[k]), second.dict[KeyOrder[k]]) >>
           ELSE << << >>, << >> >>,
           DiffKeys(first, second, prefix, k + 1))

\* lines 366-371: the elements of the longer list a beyond the length of b
Extra(a, b, prefix, k) ==
    IF k > Len(a.list) THEN << >>
    ELSE DiffLine(prefix, a.list[k]) \o Extra(a, b, prefix, k + 1)

\* lines 373-377: the positions both lists have (k is 1-based here, the index
\* in the prefix is the 0-based one of the source); only a pair of configs
\* is compared
DiffItems(first, second, prefix, k) ==
    IF k > Len(first.list) \/ k > Len(second.list) THEN << << >>, << >> >>
    ELSE Joined(
           IF IsConfig(first.list[k]) /\ IsConfig(second.list[k])
           THEN diff_configs(first.list[k], second.list[k],
                             SubPrefix(prefix, ToString(k - 1)))
           ELSE << << >>, << >> >>,
           DiffItems(first, second, prefix, k + 1))

\* lines 314-383
diff_configs(first, second, prefix) ==
    IF first.t = "dict" /\ second.t = "dict"
    THEN Joined(<< NewKeys(first, second, prefix), NewKeys(second, first, prefix) >>,
                DiffKeys(first, second, prefix, 1))
    ELSE IF first.t = "list" /\ second.t = "list"
    THEN Joined(<< Extra(first, second, prefix, Len(second.list) + 1),
                   Extra(second, first, prefix, Len(first.list) + 1) >>,
                DiffItems(first, second, prefix, 1))
    ELSE << DiffLine(prefix, first), DiffLine(prefix, second) >>

\* lines 386-394: None when both lists are empty, the summary otherwise
get_diff_string(config_diff) ==
    IF config_diff[1] = << >> /\ config_diff[2] = << >> THEN "None"
    ELSE "summary"

NoStore == [exists |-> FALSE, file |-> Missing, cfg |-> Missing, log |-> "none", calls |-> 0]

InitStore ==
    /\ DpIdle
    /\ DispatchIdle
    /\ CallsIdle
    /\ LayerIdle
    /\ long = << >>
    /\ sep = << >>
    /\ lion = << >>
    /\ store = NoStore

\* lines 397-407: save_config(config_path, raw_config)
SaveConfig ==
    /\ \E raw_config \in RawConfigs :
         store' =
           IF store.exists
           THEN IF get_diff_string(diff_configs(raw_config, store.file, NonePrefix)) # "None"
                THEN [store EXCEPT !.file = Yaml(raw_config), !.cfg = raw_config,
                                   !.log = "warning", !.calls = 1]
                ELSE [store EXCEPT !.cfg = raw_config, !.log = "none", !.calls = 1]
           ELSE [store EXCEPT !.exists = TRUE, !.file = Yaml(raw_config),
                              !.cfg = raw_config, !.log = "info", !.calls = 1]
    /\ UNCHANGED <<coreVars, long, sep, lion>>

NextStore == SaveConfig

SpecStore == InitStore /\ [][NextStore]_vars

---------------------------------------------------------------------------
(* Properties of the forward pass. *)

\* C1: every row the forward loop has filled obeys the recurrence
\* phi[r,c] = log_add_exp(phi[r-1,c] + positive_log_prob(L[r-1,c]),
\* phi[r-1,c-1] + negative_log_prob(L[r-1,c-1])) on the padded table, and
\* exp(phi[r,c]) is the sum over all stay/advance paths from the start cell
\* to (r,c) of the product of the branch weights.
C1_Recurrence ==
    pc = "fwd_loop" =>
        \A b \in DOMAIN phis : \A r \in 0..(i - 1) : \A c \in 1..Cols(logits) :
            /\ r >= 1 =>
                phis[b][r][c] =
                    _logaddexp(
                        LAdd(phis[b][r - 1][c], _pos_log_prob(Pad(logits, LZero)[b][r - 1][c])),
                        LAdd(phis[b][r - 1][c - 1], _neg_log_prob(Pad(logits, LZero)[b][r - 1][c - 1])))
            /\ Exp(phis[b][r][c]) = PathSum(Pad(logits, LZero), b, r, c)

\* the loop has finished on a grid where a cell is reached by several paths
C1_Witness ==
    /\ pc = "fwd_loop"
    /\ i = Rows(logits)
    /\ i >= 3
    /\ Cols(logits) >= 2
    /\ \E b \in DOMAIN logits : logits[b][0][0] # logits[b][1][1]

\* C2: while the padded table exists, phi[0,1] = 0, every other cell of row 0
\* and every cell of padding column 0 hold MIN_LOG_PROB.
C2_Boundary ==
    pc = "fwd_loop" =>
        \A b \in DOMAIN phis :
            /\ phis[b][0][1] = LZero
            /\ \A c \in DOMAIN phis[b][0] : c # 1 => phis[b][0][c] = MIN_LOG_PROB
            /\ \A r \in DOMAIN phis[b] : phis[b][r][0] = MIN_LOG_PROB

\* the recurrence has run over at least two rows
C2_Witness ==
    /\ pc = "fwd_loop"
    /\ nsteps >= 2
    /\ i = Rows(logits)
    /\ Cols(logits) >= 2

\* C3: every cell of the returned marginal, the last source row included, is
\* prob[r,c] = phi[r,c] + negative_log_prob(L[r,c]) with phi the table
\* without its padding column and L the caller's logit of that cell.
C3_Marginal ==
    pc \in {"fwd_done", "bwd_loop", "bwd_done"} =>
        /\ IsShape(probs, Bsz(logits), Rows(logits), Cols(logits))
        /\ \A b \in DOMAIN logits : \A r \in DOMAIN logits[b] : \A c \in DOMAIN logits[b][r] :
            /\ probs[b][r][c] = LAdd(phis[b][r][c], _neg_log_prob(logits[b][r][c]))
            /\ Exp(phis[b][r][c]) = PathSum(Pad(logits, LZero), b, r, c + 1)

C3_Witness ==
    /\ pc = "fwd_done"
    /\ Rows(logits) >= 2
    /\ Cols(logits) >= 2
    /\ \E b \in DOMAIN logits :
        LET r == Rows(logits) - 1
        IN  /\ logits[b][r][0] # logits[b][r][1]
            /\ probs[b][r][1].o = 0

---------------------------------------------------------------------------
(* Properties of the backward pass. *)

Cells(t) == {<<b, r, c>> : b \in DOMAIN t, r \in 0..(Rows(t) - 1), c \in 0..(Cols(t) - 1)}

\* the marginal of a logits tensor, by the forward pass
ProbsOf(lg) == forward_pass_cpu_(lg, CHOOSE g \in GarbageLog : TRUE)[2]

\* x + log 2
Bump(x) == LAdd(x, LogNum(0, <<2, 1>>))

\* batch element b alone, as a tensor of batch size 1
Element(t, b) == [n \in {0} |-> t[b]]

\* The exact partial derivative of sum(gr * prob) by the logit of cell
\* (k, l) of a one-element batch lg, P being the marginal of lg.  exp(prob)
\* of every cell is an affine function of the sigmoid p of any one logit (a
\* path crosses each source row once), so its difference quotient between p
\* and the sigmoid p2 of a bumped logit is its exact partial derivative by p;
\* the chain rule gives d/dx = p (1 - p) d/dp and d log Q = dQ / Q.
FiniteDifference(lg, P, gr, k, l) ==
    LET x  == lg[0][k][l]
        p  == Sigmoid(x)
        p2 == Sigmoid(Bump(x))
        P2 == Evaluated(ProbsOf([lg EXCEPT ![0][k][l] = Bump(x)]))
        dlog(e) ==
            RDiv(RMul(RDiv(RSub(P2[0][e[2]][e[3]].q, P[0][e[2]][e[3]].q), RSub(p2, p)),
                      RMul(p, RSub(One, p))),
                 P[0][e[2]][e[3]].q)
    IN  SumF([e \in Cells(lg) |-> RMul(gr[0][e[2]][e[3]], dlog(e))], Cells(lg))

\* C4: the gradient returned by the backward pass is, for every logit, the
\* exact derivative of sum(grad_prob * prob), i.e. what a finite difference
\* of the forward marginal gives.  The marginal of a batch element depends on
\* that element's logits only (first conjunct), so the sum runs over it.
C4_Gradient ==
    pc = "bwd_done" =>
        \A b \in DOMAIN logits :
            /\ ProbsOf(Element(logits, b)) = Element(probs, b)
            /\ \A k \in DOMAIN logits[b] : \A l \in DOMAIN logits[b][k] :
                result[b][k][l] =
                    FiniteDifference(Element(logits, b), Element(probs, b),
                                     Element(grad_output, b), k, l)

\* a gradient has flowed back over several rows, through both branches
C4_Witness ==
    /\ pc = "bwd_done"
    /\ Rows(logits) >= 3
    /\ Cols(logits) >= 2
    /\ nsteps = Rows(logits) - 1
    /\ \E b \in DOMAIN logits :
        /\ result[b][0][0] # extra_grad[b][0][0]
        /\ result[b][0][1] # extra_grad[b][0][1]
        /\ grad_output[b][2][1] # Zero

\* C5: exp(prob) of every cell lies in [0, 1].
C5_ProbabilityMass ==
    pc \in {"fwd_done", "bwd_loop", "bwd_done"} =>
        \A e \in Cells(probs) :
            /\ RLe(Zero, Exp(probs[e[1]][e[2]][e[3]]))
            /\ RLe(Exp(probs[e[1]][e[2]][e[3]]), One)

\* a marginal with cells of positive mass and cells that underflow to 0
C5_Witness ==
    /\ pc = "fwd_done"
    /\ Rows(logits) >= 3
    /\ \E e \in Cells(probs) : Exp(probs[e[1]][e[2]][e[3]]) = Zero
    /\ \E e \in Cells(probs) : e[2] >= 2 /\ RLt(<<1, 2>>, Exp(probs[e[1]][e[2]][e[3]]))

---------------------------------------------------------------------------
(* Scenarios. *)

\* the hand-derived exp(phi) of a 4 x 2 grid whose branch weights are all 1/2
HalfWeightPhi ==
    << << <<1, 1>>, <<0, 1>> >>,
       << <<1, 2>>, <<1, 2>> >>,
       << <<1, 4>>, <<1, 2>> >>,
       << <<1, 8>>, <<3, 8>> >> >>

\* C6: batch 1, src_len 4, tgt_len 2, all logits zero: exp(phi) has the rows
\* [1,0], [1/2,1/2], [1/4,1/2], [1/8,3/8], the 0 being the sentinel, and
\* exp(prob) is half of each entry.
C6_EndToEnd ==
    (pc = "fwd_done" /\ logits = Full(1, 4, 2, LZero)) =>
        /\ \A r \in 0..3 : \A c \in 0..1 :
            /\ Exp(phis[0][r][c]) = HalfWeightPhi[r + 1][c + 1]
            /\ Exp(probs[0][r][c]) = RMul(<<1, 2>>, HalfWeightPhi[r + 1][c + 1])
        /\ phis[0][0][1] = MIN_LOG_PROB

C6_Witness ==
    /\ pc = "fwd_done"
    /\ logits = Full(1, 4, 2, LZero)
    /\ nsteps = 3

\* C7: src_len = tgt_len = 1 with logit x: the loop body never runs,
\* phi[0,0] = 0 and prob[0,0] = negative_log_prob(x) = log(sigmoid(-x)).
C7_BoundaryPath ==
    (pc = "fwd_done" /\ Rows(logits) = 1 /\ Cols(logits) = 1) =>
        /\ nsteps = 0
        /\ \A b \in DOMAIN logits :
            /\ phis[b][0][0] = LZero
            /\ probs[b][0][0] = _neg_log_prob(logits[b][0][0])
            /\ probs[b][0][0] = LogNum(0, Sigmoid(LNeg(logits[b][0][0])))

C7_Witness ==
    /\ pc = "fwd_done"
    /\ Rows(logits) = 1
    /\ Cols(logits) = 1
    /\ logits[0][0][0] # LZero

\* C8: on a (B, S, T) input the forward pass returns phi and prob of shape
\* (B, S, T) and the backward pass returns grad_logits of shape (B, S, T).
C8_Shapes ==
    /\ pc \in {"fwd_done", "bwd_loop", "bwd_done"} =>
        /\ IsShape(phis, Bsz(logits), Rows(logits), Cols(logits))
        /\ IsShape(probs, Bsz(logits), Rows(logits), Cols(logits))
    /\ pc = "bwd_done" =>
        IsShape(result, Bsz(logits), Rows(logits), Cols(logits))

C8_Witness ==
    /\ pc = "bwd_done"
    /\ Bsz(logits) >= 2
    /\ Rows(logits) >= 2
    /\ Cols(logits) >= 2
    /\ Rows(logits) # Cols(logits)
    /\ IsShape(logits, Bsz(logits), Rows(logits), Cols(logits))

\* every logit of batch element b is x
Uniform(lg, b, x) == \A r \in DOMAIN lg[b] : \A c \in DOMAIN lg[b][r] : lg[b][r][c] = x

\* column c holds the one largest entry of row r
LargestIn(t, b, r, c) == \A c2 \in DOMAIN t[b][r] : c2 # c => LLt(t[b][r][c2], t[b][r][c])

\* C9: on a 3 x 3 grid whose logits all equal x, the largest prob of every
\* row is in column 0 when sigmoid(x) >= 0.9, and the largest prob of row r
\* is in column r when sigmoid(x) <= 0.1.
C9_Dominance ==
    (pc = "fwd_done" /\ Rows(logits) = 3 /\ Cols(logits) = 3) =>
        \A b \in DOMAIN logits : \A x \in {logits[b][0][0]} :
            Uniform(logits, b, x) =>
                /\ RLe(<<9, 10>>, Sigmoid(x)) => \A r \in 0..2 : LargestIn(probs, b, r, 0)
                /\ RLe(Sigmoid(x), <<1, 10>>) => \A r \in 0..2 : LargestIn(probs, b, r, r)

C9_Witness ==
    /\ pc = "fwd_done"
    /\ Rows(logits) = 3
    /\ Cols(logits) = 3
    /\ Bsz(logits) = 2
    /\ Uniform(logits, 0, logits[0][0][0])
    /\ Uniform(logits, 1, logits[1][0][0])
    /\ RLe(<<9, 10>>, Sigmoid(logits[0][0][0]))
    /\ RLe(Sigmoid(logits[1][0][0]), <<1, 10>>)

---------------------------------------------------------------------------
(* Properties of the device dispatch. *)

\* C10: every callable handed out or cached is the sequential CPU
\* implementation unless the device kind is "cuda" and Triton is supported,
\* and only then is it the accelerated one.
C10_Fallback ==
    /\ \A t \in Threads :
        threads[t].fn # NoFn =>
            /\ (threads[t].device.type # "cuda" => threads[t].fn = "monotonic_attention_cpu")
            /\ (~triton => threads[t].fn = "monotonic_attention_cpu")
            /\ (threads[t].fn = "monotonic_attention_gpu" <=>
                    (threads[t].device.type = "cuda" /\ triton))
    /\ \A k \in DeviceKinds :
        cache[k] # NoFn =>
            (cache[k] = "monotonic_attention_gpu" <=> (k = "cuda" /\ triton))

\* "cuda" without Triton and another kind have both fallen back
C10_Witness ==
    /\ ~triton
    /\ threads[1].fn = "monotonic_attention_cpu"
    /\ threads[1].device.type = "cuda"
    /\ threads[2].fn = "monotonic_attention_cpu"
    /\ threads[2].device.type = "mps"
    /\ cache["cuda"] = "monotonic_attention_cpu"


\* C11: the cache of get_monotonic_attention_fn is keyed by the device kind
\* alone: once a kind has an entry, every lookup that starts afterwards, for
\* any device index of that kind, returns the cached callable at once and
\* neither runs the body again nor touches the cache.
C11_Memoised ==
    [][\A t \in Threads : \A d \in Devices :
          (/\ threads[t].pc = "idle"
           /\ cache[d.type] # NoFn
           /\ threads'[t] # threads[t]
           /\ threads'[t].device = d)
          => /\ threads'[t] = [pc |-> "idle", device |-> d, fn |-> cache[d.type]]
             /\ cache' = cache
             /\ resolutions' = resolutions]_vars

C11_Witness ==
    /\ threads[1] = [pc |-> "idle", device |-> [type |-> "cuda", index |-> 0],
                     fn |-> cache["cuda"]]
    /\ threads[2] = [pc |-> "idle", device |-> [type |-> "cuda", index |-> 1],
                     fn |-> cache["cuda"]]
    /\ cache["cuda"] # NoFn
    /\ resolutions["cuda"] = 1

\* C12: when several threads look a device kind up for the first time at the
\* same moment, the body runs once for that kind, and all of them obtain the
\* same callable.
C12_SingleInitialisation ==
    /\ \A k \in DeviceKinds : resolutions[k] <= 1
    /\ \A t, u \in Threads :
          (/\ threads[t].fn # NoFn
           /\ threads[u].fn # NoFn
           /\ threads[t].device.type = threads[u].device.type)
          => threads[t].fn = threads[u].fn


\* C13: under any interleaving of forward and backward calls, the context of
\* a call holds the logits and the phi table of that call's own forward, and
\* the backward of the call reads exactly that pair and returns the gradient
\* computed from it.
C13_OwnSavedTensors ==
    \A c \in Calls :
        LET own == <<calls[c].logits,
                     forward_pass_cpu_(calls[c].logits, LZero)[1]>>
        IN  /\ calls[c].pc = "forwarded" => ctx[c] = own
            /\ calls[c].pc \in {"backwarded", "second"} =>
                  /\ calls[c].used = own
                  /\ calls[c].result =
                        backward_pass_cpu_(own[1], own[2], calls[c].grad_output, Zero)

C13_Witness ==
    /\ calls[1].pc = "backwarded"
    /\ calls[2].pc = "forwarded"
    /\ calls[1].overlapped
    /\ Shape(calls[1].logits) = <<1, 2, 2>>
    /\ Shape(calls[2].logits) = <<1, 2, 1>>
    /\ calls[1].used = <<calls[1].logits, ctx[1][2]>>
    /\ calls[1].used # ctx[2]

C17_LengthWarning ==
    \A c \in Calls :
        calls[c].pc # "new" =>
            /\ calls[c].warned <=> (Cols(calls[c].logits) > Rows(calls[c].logits))
            /\ calls[c].out = ProbsOf(calls[c].logits)

C17_Witness ==
    /\ calls[1].pc = "forwarded"
    /\ Shape(calls[1].logits) = <<1, 1, 2>>
    /\ calls[1].warned
    /\ calls[1].out = ProbsOf(calls[1].logits)
    /\ calls[2].pc = "forwarded"
    /\ Shape(calls[2].logits) = <<1, 2, 2>>
    /\ ~calls[2].warned


---------------------------------------------------------------------------
(* Properties of the layer. *)

\* the call computed attention and returned
Attended == layer.state = "built" /\ lcall.outcome = "returned" /\ lcall.clamped # NoTensor

C16_UnknownModeFatal ==
    (layer.state # "none" /\ layer.cfg.mode \notin ValidModes) =>
        \/ layer.state = "failed"
        \/ lcall.op = "none"
        \/ lcall.outcome # "returned"

\* C18: with soft_clamp = False every logit above c becomes c, every logit
\* below -c becomes -c and every other logit is left as it is, where
\* c = -log(1 / clamp_prob - 1) is positive and sigmoid(c) = clamp_prob.
C18_HardClamp ==
    (Attended /\ ~layer.soft_clamp) =>
        LET c == layer.clamp_value
            p == layer.cfg.clamp_prob
        IN  /\ LLt(LZero, c)
            /\ c = LNeg(LogNum(0, RSub(RDiv(One, p), One)))
            /\ Sigmoid(c) = p
            /\ \A n \in DOMAIN lcall.attn : \A r \in DOMAIN lcall.attn[n] :
               \A k \in DOMAIN lcall.attn[n][r] :
                  LET x == lcall.attn[n][r][k]
                      y == lcall.clamped[n][r][k]
                  IN  /\ LLt(c, x) => y = c
                      /\ LLt(x, LNeg(c)) => y = LNeg(c)
                      /\ (~LLt(c, x) /\ ~LLt(x, LNeg(c))) => y = x

C18_Witness ==
    /\ Attended
    /\ ~layer.soft_clamp
    /\ layer.cfg.clamp_prob = <<32, 33>>
    /\ \E r \in DOMAIN lcall.attn[0] : \E k \in DOMAIN lcall.attn[0][r] :
          /\ lcall.attn[0][r][k] = LogNum(0, <<64, 1>>)
          /\ lcall.clamped[0][r][k] = LogNum(0, <<32, 1>>)
    /\ \E r \in DOMAIN lcall.attn[0] : \E k \in DOMAIN lcall.attn[0][r] :
          /\ lcall.attn[0][r][k] = LogNum(0, <<1, 64>>)
          /\ lcall.clamped[0][r][k] = LogNum(0, <<1, 32>>)
    /\ \E r \in DOMAIN lcall.attn[0] : \E k \in DOMAIN lcall.attn[0][r] :
          /\ lcall.attn[0][r][k] = LogNum(0, <<3, 1>>)
          /\ lcall.clamped[0][r][k] = LogNum(0, <<3, 1>>)

\* C19 as stated: with soft_clamp = True every clamped logit lies strictly
\* inside (-c, c), whatever the input.
C19_SoftClampStrict ==
    (Attended /\ layer.soft_clamp) =>
        \A n \in DOMAIN lcall.clamped : \A r \in DOMAIN lcall.clamped[n] :
        \A k \in DOMAIN lcall.clamped[n][r] :
            /\ LLt(LNeg(layer.clamp_value), lcall.clamped[n][r][k])
            /\ LLt(lcall.clamped[n][r][k], layer.clamp_value)

\* C19, amended: with soft_clamp = True every clamped logit lies in [-c, c];
\* it is strictly inside unless tanh of the input is -1.0 or 1.0 in floating
\* point (an input of magnitude about 1e4, such as a masked position), and
\* then it is exactly -c or c.
C19_SoftClampClosed ==
    (Attended /\ layer.soft_clamp) =>
        \A n \in DOMAIN lcall.clamped : \A r \in DOMAIN lcall.clamped[n] :
        \A k \in DOMAIN lcall.clamped[n][r] :
            LET c == layer.clamp_value
                x == lcall.attn[n][r][k]
                y == lcall.clamped[n][r][k]
            IN  /\ ~LLt(y, LNeg(c))
                /\ ~LLt(c, y)
                /\ x.o = 0 => (LLt(LNeg(c), y) /\ LLt(y, c))
                /\ x.o > 0 => y = LNeg(c)
                /\ x.o < 0 => y = c

C19_Witness ==
    /\ Attended
    /\ layer.soft_clamp
    /\ layer.cfg.clamp_prob = <<32, 33>>
    /\ \E r \in DOMAIN lcall.attn[0] : \E k \in DOMAIN lcall.attn[0][r] :
          /\ lcall.attn[0][r][k] = LogNum(-1, One)
          /\ lcall.clamped[0][r][k] = LogNum(0, <<32, 1>>)
    /\ \E r \in DOMAIN lcall.attn[0] : \E k \in DOMAIN lcall.attn[0][r] :
          /\ lcall.attn[0][r][k] = LogNum(0, <<1, 2>>)
          /\ lcall.clamped[0][r][k] = LogNum(0, <<1, 8>>)

\* the sum of the weights of query q over the keys, and of key k over the
\* queries
SumOverKeys(w, n, q) == SumF(w[n][q], DOMAIN w[n][q])

SumOverQueries(w, n, k) == SumF([q \in DOMAIN w[n] |-> w[n][q][k]], DOMAIN w[n])

\* the logits of the call are the dot products plus the mask, both in the
\* layout of the mode: (key, query) in many_keys_one_query, (query, key) in
\* one_key_many_queries
MaskFollowsLayout ==
    \A n \in DOMAIN lcall.scores : \A q \in DOMAIN lcall.scores[n] :
    \A k \in DOMAIN lcall.scores[n][q] :
        LET m == IF lcall.mask = NoTensor THEN LZero ELSE lcall.mask[0][q][k]
        IN  IF layer.mode = "many_keys_one_query"
            THEN lcall.attn[n][k][q] = LAdd(lcall.scores[n][q][k], m)
            ELSE lcall.attn[n][q][k] = LAdd(lcall.scores[n][q][k], m)

\* C20 as stated: the weights sum to one over the keys in mode
\* "many_keys_one_query" and over the queries in mode
\* "one_key_many_queries", the mask following the layout of the mode.
C20_AxisPerMode ==
    (Attended /\ lcall.weights # NoTensor) =>
        /\ MaskFollowsLayout
        /\ layer.mode = "many_keys_one_query" =>
              \A n \in DOMAIN lcall.weights : \A q \in DOMAIN lcall.weights[n] :
                  SumOverKeys(lcall.weights, n, q) = One
        /\ layer.mode = "one_key_many_queries" =>
              \A n \in DOMAIN lcall.weights : \A k \in DOMAIN lcall.weights[n][0] :
                  SumOverQueries(lcall.weights, n, k) = One

\* C20, amended: in both modes the weights are the softmax of the marginal
\* over the key axis, so they sum to one over the keys of every query; the
\* modes differ in the axis the alignment runs along, and the mask follows
\* the layout of the mode.
C20_KeyAxis ==
    (Attended /\ lcall.weights # NoTensor) =>
        /\ MaskFollowsLayout
        /\ Shape(lcall.weights) = Shape(lcall.scores)
        /\ lcall.out = (IF layer.mode = "many_keys_one_query"
                        THEN Transpose(ProbsOf(lcall.clamped))
                        ELSE ProbsOf(lcall.clamped))
        /\ \A n \in DOMAIN lcall.weights : \A q \in DOMAIN lcall.weights[n] :
              /\ SumOverKeys(lcall.weights, n, q) = One
              /\ \A k1, k2 \in DOMAIN lcall.weights[n][q] :
                    LET a == lcall.out[n][q][k1]
                        b == lcall.out[n][q][k2]
                    IN  /\ a.o = b.o =>
                              RMul(lcall.weights[n][q][k1], b.q) =
                              RMul(lcall.weights[n][q][k2], a.q)
                        /\ a.o > b.o => lcall.weights[n][q][k1] = Zero

C20_Witness ==
    /\ Attended
    /\ lcall.op = "forward_attn"
    /\ layer.mode = "one_key_many_queries"
    /\ lcall.mask # NoTensor
    /\ Shape(lcall.weights) = <<1, 2, 2>>
    /\ \A q \in DOMAIN lcall.weights[0] : SumOverKeys(lcall.weights, 0, q) = One
    /\ \E k \in DOMAIN lcall.weights[0][0] : SumOverQueries(lcall.weights, 0, k) # One


---------------------------------------------------------------------------
(* Further properties of the dynamic program. *)

\* C21: no step of the forward or backward pass changes the caller's logits;
\* once saved, logits and phi stay as they are through the backward pass; the
\* upstream gradient given to backward keeps its value while the working
\* copy is accumulated in place; and what is returned does not depend on
\* what the freshly allocated buffers held.
C21_InputsUntouched ==
    /\ [][/\ logits' = logits
          /\ pc \in {"fwd_done", "bwd_loop", "bwd_done"} => saved' = saved
          /\ pc = "bwd_loop" => grad_output' = grad_output]_vars
    /\ [](pc = "fwd_done" =>
              saved = <<logits, forward_pass_cpu_(logits, LZero)[1]>>)
    /\ [](pc = "bwd_done" =>
              result = backward_pass_cpu_(saved[1], saved[2], grad_output, Zero))

C21_Witness ==
    /\ pc = "bwd_done"
    /\ nsteps >= 2
    /\ grad_phis # grad_output
    /\ saved[1] = logits
    /\ result # NoTensor


\* C22: the phi of a cell a monotonic path reaches stays above MIN_LOG_PROB,
\* whatever the source length: cell (i, 0) is reached by the path that stays
\* in the first column, and the sentinel of the pad column never comes
\* within reach of the real mass that arrives there.
C22_SentinelBelowPaths ==
    long # <<>> => long.phi > MinLogProbMilli


\* t with every row other than r and r + 1 replaced by g
OnlyRows(t, r, g) ==
    [b \in DOMAIN t |-> [k \in DOMAIN t[b] |-> [c \in DOMAIN t[b][k] |->
        IF k \in {r, r + 1} THEN t[b][k][c] ELSE g]]]

\* what the rows a body does not read are replaced with: a phi and a grad_phi
ScrambleValues ==
    {gh \in GarbageLog \X GarbageNum : (gh[1].o = 0) # (gh[2][1] > 0)}

\* one body of the backward loop: it is the body of row src_len - 2 - nsteps,
\* it writes row i of grad_logits and of grad_phis and no other row, and what
\* it writes is the same whatever the other rows of phi and grad_phis hold
C25_Body ==
    (pc = "bwd_loop" /\ nsteps' = nsteps + 1) =>
        /\ i = Rows(saved[1]) - 2 - nsteps
        /\ i' = i - 1
        /\ \A b \in DOMAIN grad_phis : \A r \in DOMAIN grad_phis[b] :
              r # i => /\ grad_phis'[b][r] = grad_phis[b][r]
                       /\ grad_logits'[b][r] = grad_logits[b][r]
        /\ \A gh \in ScrambleValues : \A b \in DOMAIN grad_phis :
              /\ grad_logits'[b][i] =
                     StepGradLogits(saved[1], OnlyRows(saved[2], i, gh[1]),
                                    OnlyRows(grad_phis, i, gh[2]), grad_logits, i)[b][i]
              /\ grad_phis'[b][i] =
                     StepGradPhis(saved[1], OnlyRows(saved[2], i, gh[1]),
                                  OnlyRows(grad_phis, i, gh[2]), i)[b][i]

\* C25: the backward loop visits the source rows src_len - 2 down to 0 once
\* each, reads rows i and i + 1 of phi and row i + 1 of grad_phi (which no
\* later body changes), and ends after src_len - 1 bodies; the last source
\* row of the result is d_negative_log_prob(L) * grad_prob, which for
\* src_len = 1 is the whole result.
C25_BackwardOrder ==
    /\ [][C25_Body]_vars
    /\ [](pc = "bwd_loop" => (i >= -1 /\ i + nsteps = Rows(saved[1]) - 2))
    /\ [](pc = "bwd_done" =>
              /\ i = -1
              /\ nsteps = Rows(saved[1]) - 1
              /\ \A b \in DOMAIN result : \A c \in DOMAIN result[b][0] :
                    result[b][Rows(saved[1]) - 1][c] =
                        RMul(_d_neg_log_prob(saved[1][b][Rows(saved[1]) - 1][c]),
                             grad_output[b][Rows(saved[1]) - 1][c]))

C25_Witness ==
    /\ pc = "bwd_done"
    /\ Rows(saved[1]) = 3
    /\ Cols(saved[1]) >= 2
    /\ nsteps = 2
    /\ result[0][2][0] # Zero
    /\ grad_phis[0][0] # grad_output[0][0]

\* MIN_LOG_PROB + r * log 2
SentinelBound(r) == LAdd(MIN_LOG_PROB, LogNum(0, <<PowUpTo(2, r, 1000000), 1>>))

\* C26: in the table without its padding column, phi[r,c] holds mass of the
\* start cell exactly when c <= r (there are paths to it and exp(phi) is
\* their positive weight); a cell with c > r has no path, holds mass of the
\* sentinel only and is at most MIN_LOG_PROB + r * log 2; so every column
\* c >= src_len has a marginal at the sentinel's magnitude in every row.
C26_Reachability ==
    pc \in {"fwd_done", "bwd_loop", "bwd_done"} =>
        \A b \in DOMAIN phis : \A r \in DOMAIN phis[b] : \A c \in DOMAIN phis[b][r] :
            /\ (c <= r) <=> (PathsTo(r, c + 1) # {})
            /\ (c <= r) <=> RLt(Zero, Exp(phis[b][r][c]))
            /\ (c <= r) => LLt(SentinelBound(r), phis[b][r][c])
            /\ (c > r) => /\ ~LLt(SentinelBound(r), phis[b][r][c])
                          /\ phis[b][r][c].o = 1
            /\ (c >= Rows(phis)) => /\ probs[b][r][c].o = 1
                                    /\ ~LLt(SentinelBound(r), probs[b][r][c])
                                    /\ Exp(probs[b][r][c]) = Zero

C26_Witness ==
    /\ pc = "fwd_done"
    /\ Rows(phis) = 2
    /\ Cols(phis) = 3
    /\ phis[0][1][1].o = 0
    /\ phis[0][1][2].o = 1
    /\ LLt(MIN_LOG_PROB, phis[0][1][2])
    /\ probs[0][0][2].o = 1

\* the path mass of row r: the sum of exp(phi[r,c]) over the target columns,
\* a cell of sentinel mass adding exp(-1e4) = 0
RowMass(ph, b, r) == SumF([c \in DOMAIN ph[b][r] |-> Exp(ph[b][r][c])], DOMAIN ph[b][r])

\* C27: the path mass of every row is at most 1 and never grows from one row
\* to the next; it is exactly 1 in every row r < tgt_len, and what a row
\* loses is the mass that advances out of the last target column of the row
\* before it.
C27_MassConservation ==
    pc \in {"fwd_done", "bwd_loop", "bwd_done"} =>
        \A b \in DOMAIN phis : \A r \in DOMAIN phis[b] :
            /\ RLe(RowMass(phis, b, r), One)
            /\ r < Cols(phis) => RowMass(phis, b, r) = One
            /\ r >= 1 =>
                  /\ RLe(RowMass(phis, b, r), RowMass(phis, b, r - 1))
                  /\ RSub(RowMass(phis, b, r - 1), RowMass(phis, b, r)) =
                         RMul(Exp(phis[b][r - 1][Cols(phis) - 1]),
                              Sigmoid(LNeg(logits[b][r - 1][Cols(phis) - 1])))

C27_Witness ==
    /\ pc = "fwd_done"
    /\ Rows(phis) = 3
    /\ Cols(phis) = 2
    /\ RowMass(phis, 0, 1) = One
    /\ RLt(RowMass(phis, 0, 2), One)
    /\ RLt(Zero, Exp(phis[0][2][0]))

---------------------------------------------------------------------------
(* Further properties of the layer. *)

\* C24: in both modes the mask is added to the dot products first, the sum
\* is clamped, and the alignment operator is given the clamped logits: each
\* of them lies in [-c, c] whatever the mask holds, a position masked with
\* about -1e4 receiving a logit of the interval and not being left out.
C24_MaskThenClamp ==
    Attended =>
        /\ MaskFollowsLayout
        /\ lcall.clamped = _clamp_attn(layer, lcall.attn)
        /\ \A n \in DOMAIN lcall.clamped : \A r \in DOMAIN lcall.clamped[n] :
           \A k \in DOMAIN lcall.clamped[n][r] :
               /\ ~LLt(lcall.clamped[n][r][k], LNeg(layer.clamp_value))
               /\ ~LLt(layer.clamp_value, lcall.clamped[n][r][k])
               /\ lcall.clamped[n][r][k].o = 0
        /\ \E g \in GarbageLog :
              lcall.out = Layout(layer.mode, forward_pass_cpu_(lcall.clamped, g)[2])

C24_Witness ==
    /\ Attended
    /\ lcall.mask # NoTensor
    /\ layer.mode = "many_keys_one_query"
    /\ Rows(lcall.scores) >= 2
    /\ Cols(lcall.scores) >= 2
    /\ lcall.attn[0][1][0].o > 0
    /\ lcall.clamped[0][1][0] = LNeg(layer.clamp_value)
    /\ lcall.scores[0][0][1].o = 0


---------------------------------------------------------------------------
(* Properties of the optimizers. *)

\* the weight decay of the group that holds the parameter named n, one entry
\* per group that holds it
DecaysOf(n) == {g \in 1..Len(sep.groups) : n \in sep.groups[g].params}

\* C28: every trainable parameter is in exactly one group, chosen by the
\* module that owns it directly: fewer than 2 dimensions or an owner of a
\* never-decay type give weight decay 0.0, an owner of an always-decay type
\* gives the weight decay of the call, anything else follows default_decay,
\* wherever the owner sits in the model.
C28_ByOwningModule ==
    (sep # NoSep /\ sep.pc = "done") =>
        /\ sep.error = "none"
        /\ \A d \in 1..Len(sep.model) : \A k \in 1..Len(OwnParams(sep.model[d].kind)) :
              LET own  == OwnParams(sep.model[d].kind)[k]
                  n    == sep.model[d].path \o << own.name >>
                  kind == sep.model[d].kind
                  want == IF own.ndim < 2 \/ kind \in never_decay THEN Zero
                          ELSE IF kind \in always_decay THEN sep.weight_decay
                          ELSE IF sep.default_decay THEN sep.weight_decay ELSE Zero
              IN  IF sep.model[d].requires_grad
                  THEN /\ Cardinality(DecaysOf(n)) = 1
                       /\ \A g \in DecaysOf(n) : sep.groups[g].weight_decay = want
                  ELSE DecaysOf(n) = {}


\* C29: a Lion built with use_triton = True where Triton is supported updates
\* the parameters whose gradient is on CUDA with the Triton function; with
\* use_triton = False, or Triton unsupported, or a gradient on the CPU, a
\* parameter is updated with the vanilla function.
C29_LionBackend ==
    (lion # << >> /\ lion.state = "built") =>
        \A k \in DOMAIN lion.applied :
            lion.applied[k] # "none" =>
                IF lion.use_triton /\ lion.supported /\ lion.devices[k] = "cuda"
                THEN lion.applied[k] = "triton_update_fn"
                ELSE lion.applied[k] = "_lion_update_fn_vanilla"


---------------------------------------------------------------------------
(* Properties of the stored config. *)

\* C30: when save_config(path, cfg) has returned, the file at path holds
\* cfg, whatever config was stored there before.
C30_StoredConfigCurrent ==
    (store # << >> /\ store.calls > 0) =>
        /\ store.exists
        /\ store.file = Yaml(store.cfg)

=============================================================================
